---- MODULE Spec2Model ----
(***************************************************************************)
(* Random student selector: the session controller (_start_session,        *)
(* _next_student, apply_rating, the feedback popup) and the reel animator  *)
(* (_show_slot_window with its _frame / tick callbacks) of the three       *)
(* revisions selection_r3.py, selection_r5.py and studentselector.py.      *)
(*                                                                         *)
(* Time is counted in units of 50 ms.  A slot window's closure keeps       *)
(* start_time, last_time and final_start_time; the model keeps, for every  *)
(* window, the differences now - start_time, now - last_time and           *)
(* now - final_start_time, which are the only way the code reads them.     *)
(* The reel phase is counted in units of a third of a row and the 1e-6     *)
(* slack of the rotation loop is one unit of it.                           *)
(* Student names are sequences of code points, so that _format_name is     *)
(* computed as the code computes it.                                       *)
(***************************************************************************)
EXTENDS Integers, Sequences, FiniteSets, TLC

VARIABLES
    rev,                        \* which revision runs: "r3", "r5" or "latest"
    classes,                    \* self.classes: class name -> roster
    selected_class,             \* self.selected_class (combobox variable)
    time_seconds,               \* <<time_preset_var>>, or <<minutes_var, seconds_var>>
    slot_effect_enabled_var,    \* self.slot_effect_enabled_var
    session_students_by_class,  \* self.session_students_by_class (latest)
    student_grades_by_class,    \* self.student_grades_by_class (latest)
    active_class,               \* self.active_class (latest)
    session_students,           \* self.session_students
    student_grades,             \* self.student_grades
    exit_requested,             \* self.exit_requested
    rounds,                     \* the closures of _show_slot_window that still exist
    popups,                     \* the open feedback popups
    summaries,                  \* number of open "Grades Summary" windows
    sound,                      \* self.sound and what the mixer plays
    done,                       \* history: the <<class, student>> of the rounds that reached DONE
    last_callback               \* history: what the callback that ran last came to

vars == <<rev, classes, selected_class, time_seconds, slot_effect_enabled_var,
          session_students_by_class, student_grades_by_class, active_class,
          session_students, student_grades, exit_requested, rounds, popups,
          summaries, sound, done, last_callback>>

AppVars == <<rev, classes, selected_class, time_seconds, slot_effect_enabled_var>>
PoolVars == <<session_students_by_class, session_students>>
GradeVars == <<student_grades_by_class, student_grades>>
\* what a callback can come to: the tick of a window torn down before, a
\* Start refused with an error message, a summary opened at the end of a
\* session, or anything else
LATE_TICK == "late tick"
START_ERROR == "start error"
SUMMARY == "summary"
ORDINARY == "ordinary"

\* the history a callback leaves that finishes no round
NoHistory == last_callback' = ORDINARY /\ UNCHANGED done

-----------------------------------------------------------------------------
(* Bounds of the model *)

MaxRounds == 2          \* slot window closures that exist at the same time
MaxSummaries == 1       \* summary windows open at the same time
MaxPopups == 1          \* feedback popups open at the same time
RowH == 3               \* row_h, in phase units
MaxCount == 2           \* the runs of _finalize in a window are counted up to this
UnitsPerSecond == 20    \* clock readings in a second

MaxAdv == 2 * RowH + 1  \* largest phase advance of one spinning tick

-----------------------------------------------------------------------------
(* Program constants, times in clock units (50 ms) *)

final_roll_time == (65 * UnitsPerSecond) \div 100       \* 0.65 s
final_roll_time_r5 == (55 * UnitsPerSecond) \div 100    \* 0.55 s
min_remaining_time == (5 * UnitsPerSecond) \div 100     \* 0.05 s
timeup_lead == (20 * UnitsPerSecond) \div 100           \* the 200 ms of the time-up call
Eps == 1                        \* the 1e-6 of "phase >= row_h - 1e-6"
FinalTol == 2                   \* the 1e-3 of "abs(phase) < 1e-3"

None == "None"
SELECT_A_CLASS == "Select a Class"
ratings == <<"A*", "A", "B", "C">>
NOTED == "Noted."

-----------------------------------------------------------------------------
(* Sequences *)

Range(s) == {s[i] : i \in 1..Len(s)}

Min(a, b) == IF a <= b THEN a ELSE b
Max(a, b) == IF a >= b THEN a ELSE b

\* list.remove(x): drops the first occurrence
RECURSIVE ListRemove(_, _)
ListRemove(s, x) ==
    IF s = <<>> THEN <<>>
    ELSE IF Head(s) = x THEN Tail(s)
    ELSE <<Head(s)>> \o ListRemove(Tail(s), x)

\* list(dict.fromkeys(s)): de-duplication preserving first-seen order
RECURSIVE DedupKeepOrder(_)
DedupKeepOrder(s) ==
    IF s = <<>> THEN <<>>
    ELSE LET init == DedupKeepOrder(SubSeq(s, 1, Len(s) - 1))
             x == s[Len(s)]
         IN IF x \in Range(init) THEN init ELSE Append(init, x)


-----------------------------------------------------------------------------
(* Student names and their display form *)

Ann == <<65, 110>>                  \* "An"
Bob == <<66, 111>>                  \* "Bo"
LiMixed == <<76, 105, 32, 26446>>   \* "Li" + space + U+674E (Latin and CJK)

\* "Please prepare your answer."
PLACEHOLDER == <<80, 108, 101, 97, 115, 101, 32, 112, 114, 101, 112, 97, 114,
                 101, 32, 121, 111, 117, 114, 32, 97, 110, 115, 119, 101, 114, 46>>

IsSpace(ch) == ch \in {9, 10, 11, 12, 13, 32}

_is_cjk(o) ==
    \/ (19968 <= o /\ o <= 40959)       \* 0x4E00 .. 0x9FFF
    \/ (13312 <= o /\ o <= 19903)       \* 0x3400 .. 0x4DBF
    \/ (12352 <= o /\ o <= 12543)       \* 0x3040 .. 0x30FF
    \/ (44032 <= o /\ o <= 55215)       \* 0xAC00 .. 0xD7AF

IsLatin(o) == (65 <= o /\ o <= 90) \/ (97 <= o /\ o <= 122)

RECURSIVE LStrip(_)
LStrip(s) == IF s # <<>> /\ IsSpace(Head(s)) THEN LStrip(Tail(s)) ELSE s

RECURSIVE RStrip(_)
RStrip(s) ==
    IF s # <<>> /\ IsSpace(s[Len(s)]) THEN RStrip(SubSeq(s, 1, Len(s) - 1)) ELSE s

Strip(s) == RStrip(LStrip(s))

\* the characters before the first white space
RECURSIVE FirstWord(_)
FirstWord(s) ==
    IF s = <<>> \/ IsSpace(Head(s)) THEN <<>>
    ELSE <<Head(s)>> \o FirstWord(Tail(s))

\* s.split(None, 1) of a stripped s that holds white space: <<left, right>>
SplitOnce(s) ==
    LET left == FirstWord(s)
    IN <<left, LStrip(SubSeq(s, Len(left) + 1, Len(s)))>>

_format_name(name) ==
    LET s == Strip(name)
    IN IF s = <<>> THEN s
       ELSE IF /\ 32 \in Range(s)
               /\ \E i \in 1..Len(s) : _is_cjk(s[i])
               /\ \E i \in 1..Len(s) : IsLatin(s[i])
            THEN SplitOnce(s)[1] \o <<32, 183, 32>> \o SplitOnce(s)[2]
            ELSE s

-----------------------------------------------------------------------------
(* Rosters and messages, as load_students_by_class and                     *)
(* load_messages_by_rating return them: every class that is a key has at   *)
(* least one student and no student twice.                                 *)

RosterOneClass == ("A" :> <<Ann, Bob>>)
RosterOneStudent == ("A" :> <<LiMixed>>)
RosterSameName == ("A" :> <<Bob>>) @@ ("B" :> <<Bob>>)

\* load_students_by_class on the rows of the CSV, each <<class_name,
\* student_name>> with the class name already stripped: the student name is
\* stripped, rows with an empty field are skipped, the names are appended
\* to the list of their class, and each list is de-duplicated at the end
RECURSIVE RowsOfClass(_, _)
RowsOfClass(rows, k) ==
    IF rows = <<>> THEN <<>>
    ELSE LET init == RowsOfClass(SubSeq(rows, 1, Len(rows) - 1), k)
             row == rows[Len(rows)]
         IN IF row[1] = k /\ Strip(row[2]) # <<>>
            THEN Append(init, Strip(row[2]))
            ELSE init

load_students_by_class(rows) ==
    LET keys == {rows[n][1] : n \in {m \in DOMAIN rows :
                    rows[m][1] # "" /\ Strip(rows[m][2]) # <<>>}}
    IN [k \in keys |-> DedupKeepOrder(RowsOfClass(rows, k))]

\* roster files: a student entered twice and with spaces around the name, a
\* row without a name, and a name that is in two classes
RowsRepeated == << <<"A", Ann>>, <<"A", <<32>> \o Bob>>, <<"A", <<>>>>,
                  <<"A", Ann \o <<32>>>>, <<"", Bob>> >>
RowsTwoClasses == << <<"A", Bob>>, <<"B", Bob>>, <<"B", Bob>> >>

\* self.messages: ratings without a message row are no key of the dict
messages == ("A" :> <<"Well done.">>)

Revisions == {"r3", "r5", "latest"}

\* the timer as the main screen is built: the 5 s preset of the latest
\* revision, 0 min 10 s in the spin boxes of the earlier ones
DefaultTime(r) == IF r = "latest" THEN 5 ELSE 10

\* What a timer variable holds, as its get() reads it: a number, kept in
\* tenths (<<25>> is 2.5), or a text that is no number (<<>>), on which
\* get() raises.
NotANumber == <<>>

\* the timer variables when the timer stands at a whole number of seconds:
\* the preset of the latest revision, minutes and seconds in the spin boxes
\* of the earlier ones
TimerFields(r, seconds) ==
    IF r = "latest" THEN << <<10 * seconds>> >>
    ELSE << <<10 * (seconds \div 60)>>, <<10 * (seconds % 60)>> >>

\* int(x) of a number x given in tenths: the fraction is cut off
int(t) == IF t >= 0 THEN t \div 10 ELSE 0 - ((0 - t) \div 10)

-----------------------------------------------------------------------------
(* The slot window: canvas items, reel state and the closures' variables  *)

\* the three canvas text items, named by the row they are created on
Items == {"P", "C", "N"}

\* a _get_duration_seconds without the floor of one second
_get_duration_seconds_NoFloor(v) ==
    LET readable == \A k \in DOMAIN v : v[k] # NotANumber
        total == IF rev = "latest"
                 THEN (IF readable THEN int(v[1][1]) ELSE 30)
                 ELSE (IF readable THEN int(v[1][1]) * 60 + int(v[2][1])
                       ELSE 0 * 60 + 10)
    IN total * UnitsPerSecond

\* _get_duration_seconds, in clock units; v is what the timer variables hold
_get_duration_seconds(v) ==
    LET readable == \A k \in DOMAIN v : v[k] # NotANumber
        total == IF rev = "latest"
                 THEN (IF readable THEN int(v[1][1]) ELSE 30)
                 ELSE (IF readable THEN int(v[1][1]) * 60 + int(v[2][1])
                       ELSE 0 * 60 + 10)
    IN Max(1, total) * UnitsPerSecond

\* _render(phase_px): the items' vertical offsets from the centre line cy
_render(r, phase_px) ==
    [r EXCEPT !.y = [it \in Items |->
                        IF it = r.t_prev THEN (0 - RowH) - phase_px
                        ELSE IF it = r.t_cur THEN 0 - phase_px
                        ELSE RowH - phase_px]]

\* the texts of the three items after reel.itemconfig of all three handles
SlotTexts(r, prev, cur, next) ==
    [it \in Items |->
        IF it = r.t_prev THEN _format_name(prev)
        ELSE IF it = r.t_cur THEN _format_name(cur)
        ELSE _format_name(next)]

\* a rotation that takes the name it draws for the winner of the round
_rotate_once_Commit(r, f) ==
    [r EXCEPT !.prev_raw = r.cur_raw,
              !.cur_raw = r.next_raw,
              !.next_raw = f,
              !.final_student = f,
              !.text = SlotTexts(r, r.cur_raw, r.next_raw, f),
              !.rotated = TRUE]

\* _rotate_once, with f the filler that random.choice(pool) returns
_rotate_once(r, f) ==
    [r EXCEPT !.prev_raw = r.cur_raw,
              !.cur_raw = r.next_raw,
              !.next_raw = f,
              !.text = SlotTexts(r, r.cur_raw, r.next_raw, f),
              !.rotated = TRUE]

\* a single conditional in the place of the loop: at most one rotation in a
\* tick
NRot_Once(p) == IF p >= RowH - Eps THEN 1 ELSE 0

\* how often "while phase >= row_h - 1e-6" runs its body
RECURSIVE NRot(_)
NRot(p) == IF p >= RowH - Eps THEN 1 + NRot(p - RowH) ELSE 0

\* what random.choice(pool) is seen to return for a reel filler or a
\* shuffled label: any element of the pool, or its first one only
Choices(pool, fills) ==
    IF fills = "any" THEN Range(pool) ELSE {pool[i] : i \in {1} \cap DOMAIN pool}

\* every outcome of n rotation events
RECURSIVE RotateN(_, _, _)
RotateN(r, n, fills) ==
    IF n = 0 THEN {r}
    ELSE UNION { {_rotate_once(q, f) : f \in Choices(q.pool, fills)} :
                    q \in RotateN(r, n - 1, fills) }

\* the rotation loop of _frame, started with the advanced phase p
RotationLoop(r, p, fills) ==
    LET n == NRot(p)
    IN { [q EXCEPT !.phase = p - n * RowH] : q \in RotateN(r, n, fills) }

\* a slot window as _show_slot_window leaves it when it returns (the first
\* _frame / _frame_no_effect / tick call included: it runs at elapsed = 0,
\* advances the phase by less than one unit and schedules the next call)
NewRound(class_name, final_student, ss, prev, cur, next) ==
    LET effect == IF rev = "latest" THEN slot_effect_enabled_var ELSE TRUE
        reel == rev # "r3"
    IN [ class_name |-> class_name,
         final_student |-> final_student,
         duration |-> _get_duration_seconds(time_seconds),
         slot_effect_enabled |-> effect,
         alive |-> TRUE,
         win_exists |-> TRUE,
         pool |-> IF ss # <<>> THEN ss ELSE <<final_student>>,
         prev_raw |-> prev, cur_raw |-> cur, next_raw |-> next,
         t_prev |-> "P", t_cur |-> "C", t_next |-> "N",
         text |-> [it \in Items |->
                     IF ~reel THEN (IF it = "C" THEN cur ELSE <<>>)
                     ELSE IF ~effect
                          THEN (IF it = "C" THEN PLACEHOLDER
                                ELSE IF it = "P" THEN _format_name(prev)
                                ELSE _format_name(next))
                     ELSE IF it = "P" THEN _format_name(prev)
                     ELSE IF it = "C" THEN _format_name(cur)
                     ELSE _format_name(next)],
         y |-> [it \in Items |-> IF it = "P" THEN 0 - RowH
                                 ELSE IF it = "C" THEN 0 ELSE RowH],
         hidden |-> [it \in Items |-> IF reel /\ effect THEN FALSE ELSE it # "C"],
         status |-> "Now Choosing",
         remaining_label |-> Len(ss),
         phase |-> 0,
         final_mode |-> FALSE,
         final_start_phase |-> 0,
         elapsed |-> 0,
         dt |-> 0,
         final_elapsed |-> 0,
         rotated |-> FALSE,
         pending |-> TRUE,
         timeup |-> (rev = "latest"
                       \/ _get_duration_seconds(time_seconds) >= 10 * UnitsPerSecond),
         finalized |-> 0,
         grading |-> FALSE ]

\* the closure of _show_slot_window, for the draws it makes
NewRounds(class_name, final_student, ss, fills) ==
    LET pool == IF ss # <<>> THEN ss ELSE <<final_student>>
    IN IF rev = "r3"
       THEN { NewRound(class_name, final_student, ss, <<>>, c, <<>>) :
                 c \in Choices(ss, fills) }
       ELSE { NewRound(class_name, final_student, ss, p, c, n) :
                 p \in Choices(pool, fills), c \in Choices(pool, fills),
                 n \in Choices(pool, fills) }

\* SPINNING | SETTLING | DONE
Mode(r) ==
    IF r.finalized > 0 THEN "DONE"
    ELSE IF r.final_mode THEN "SETTLING" ELSE "SPINNING"

\* win.destroy(): the window and its widgets are gone.  No code reads the
\* reel variables of the closure once the window is destroyed, and the
\* model forgets them with the widgets; so it does the time-up callback,
\* which returns at its guard then (in selection_r3, which has no guard, it
\* is a command of the window and goes with it).
Destroy(r) ==
    IF ~r.win_exists THEN r
    ELSE [r EXCEPT !.win_exists = FALSE,
                   !.pool = <<>>,
                   !.prev_raw = <<>>, !.cur_raw = <<>>, !.next_raw = <<>>,
                   !.t_prev = "P", !.t_cur = "C", !.t_next = "N",
                   !.text = [it \in Items |-> <<>>],
                   !.y = [it \in Items |-> 0],
                   !.hidden = [it \in Items |-> TRUE],
                   !.status = "",
                   !.remaining_label = 0,
                   !.grading = FALSE,
                   !.timeup = FALSE,
                   !.duration = 0,
                   !.slot_effect_enabled = TRUE,
                   !.phase = 0,
                   !.final_start_phase = 0,
                   !.elapsed = 0, !.dt = 0, !.final_elapsed = 0,
                   !.rotated = FALSE]

\* a closure lives as long as its window exists or a callback of it is
\* scheduled
Retire(rs) == SelectSeq(rs, LAMBDA r : r.win_exists \/ r.pending)

\* _clear_root: every child of the root window is destroyed, top-level
\* windows included
ClearRoot(rs) == Retire([i \in DOMAIN rs |-> Destroy(rs[i])])

-----------------------------------------------------------------------------
(* The sound manager.  sound holds the SoundManager object (enabled,       *)
(* mixer_ok), what the mixer is playing (the music stream, whether it      *)
(* loops, and whether a Sound plays on a channel) and the machine: the     *)
(* track files that exist and whether calls of the mixer can raise.        *)
(* An operation maps the value of sound to the set of its outcomes: the    *)
(* value it leaves and whether it raised to its caller.                    *)

INTRO_MUSIC == "welcome.mp3"
CLOSING_MUSIC == "closing.mp3"
SLOT_SOUND_SHORT == "select_student.mp3"
SLOT_SOUND_MEDIUM == "medium_slot.mp3"
SLOT_SOUND_LONG == "long_slot.mp3"
TIMEUP_SOUND == "timeup.mp3"
NoPath == ""

\* RATING_SOUNDS.get(rating, "")
RatingSound(rating) ==
    IF rating = "A*" THEN "sound_a_star.mp3"
    ELSE IF rating = "A" THEN "sound_a.mp3"
    ELSE IF rating = "B" THEN "sound_b.mp3"
    ELSE IF rating = "C" THEN "sound_c.mp3"
    ELSE NoPath

AllTracks ==
    {INTRO_MUSIC, CLOSING_MUSIC, SLOT_SOUND_SHORT, SLOT_SOUND_MEDIUM,
     SLOT_SOUND_LONG, TIMEUP_SOUND} \cup {RatingSound(ratings[k]) : k \in DOMAIN ratings}

\* duration <= 4.99 and duration <= 19.99, the duration in clock units
_slot_sound_for_duration(duration) ==
    IF 100 * duration <= 499 * UnitsPerSecond THEN SLOT_SOUND_SHORT
    ELSE IF 100 * duration <= 1999 * UnitsPerSecond THEN SLOT_SOUND_MEDIUM
    ELSE SLOT_SOUND_LONG

\* SoundManager() on a machine: pygame imported and the mixer initialised,
\* or not
SoundManager(mixer_ok, files, faulty) ==
    [ enabled |-> TRUE,
      mixer_ok |-> mixer_ok,
      music |-> None,
      loop |-> FALSE,
      channel |-> FALSE,
      files |-> files,
      faulty |-> faulty ]

\* a machine without pygame
NoMixer == SoundManager(FALSE, {}, FALSE)

Returns(snd) == [snd |-> snd, raised |-> FALSE]
Raises(snd) == [snd |-> snd, raised |-> TRUE]

_file_exists(snd, path) == path # NoPath /\ path \in snd.files

\* mixer.music.stop(); mixer.music.load(path); mixer.music.play(loops):
\* the values the three calls can leave when one of them raises
MusicPlayFailed(snd) ==
    IF snd.faulty THEN {snd, [snd EXCEPT !.music = None, !.loop = FALSE]} ELSE {}

\* set_enabled(enabled); mixer.stop() halts the Sound channels, the music
\* stream is not one of them
set_enabled(snd, enabled) ==
    LET s1 == [snd EXCEPT !.enabled = enabled]
    IN IF (~enabled) /\ snd.mixer_ok
       THEN {Returns([s1 EXCEPT !.channel = FALSE])}
               \cup (IF snd.faulty THEN {Returns(s1)} ELSE {})
       ELSE {Returns(s1)}

stop_music(snd) ==
    IF ~snd.mixer_ok THEN {Returns(snd)}
    ELSE {Returns([snd EXCEPT !.music = None, !.loop = FALSE])}
            \cup (IF snd.faulty THEN {Returns(snd)} ELSE {})

\* a play_music_once whose mixer calls are not wrapped in try / except
play_music_once_Unguarded(snd, path) ==
    IF (~snd.enabled) \/ (~snd.mixer_ok) \/ ~_file_exists(snd, path)
    THEN {Returns(snd)}
    ELSE {Returns([snd EXCEPT !.music = path, !.loop = FALSE])}
            \cup {Raises(x) : x \in MusicPlayFailed(snd)}

play_music_once(snd, path) ==
    IF (~snd.enabled) \/ (~snd.mixer_ok) \/ ~_file_exists(snd, path)
    THEN {Returns(snd)}
    ELSE {Returns([snd EXCEPT !.music = path, !.loop = FALSE])}
            \cup {Returns(x) : x \in MusicPlayFailed(snd)}

play_music_loop(snd, path) ==
    IF (~snd.enabled) \/ (~snd.mixer_ok) \/ ~_file_exists(snd, path)
    THEN {Returns(snd)}
    ELSE {Returns([snd EXCEPT !.music = path, !.loop = TRUE])}
            \cup {Returns(x) : x \in MusicPlayFailed(snd)}

\* play_timeup: a Sound on a channel; when that raises, the music stream
play_timeup(snd, path) ==
    IF (~snd.enabled) \/ (~snd.mixer_ok) \/ ~_file_exists(snd, path)
    THEN {Returns(snd)}
    ELSE {Returns([snd EXCEPT !.channel = TRUE])}
            \cup (IF snd.faulty
                  THEN {Returns([snd EXCEPT !.music = path, !.loop = FALSE])}
                          \cup {Returns(x) : x \in MusicPlayFailed(snd)}
                  ELSE {})

-----------------------------------------------------------------------------
(* The session controller *)

\* the application as constructed, on one of the given machines
InitOn(rosters, machines) ==
    /\ rev \in Revisions
    /\ classes \in rosters
    /\ selected_class = SELECT_A_CLASS
    /\ time_seconds = TimerFields(rev, DefaultTime(rev))
    /\ slot_effect_enabled_var = TRUE
    /\ session_students_by_class = <<>>
    /\ student_grades_by_class = <<>>
    /\ active_class = None
    /\ session_students = <<>>
    /\ student_grades = <<>>
    /\ exit_requested = FALSE
    /\ rounds = <<>>
    /\ popups = <<>>
    /\ summaries = 0
    /\ sound \in machines
    /\ done = {}
    /\ last_callback = ORDINARY

\* the application on a machine without pygame: no operation of the sound
\* manager does anything
InitWith(rosters) == InitOn(rosters, {NoMixer})

\* a write through self.session_students: in the latest revision the list
\* is the one session_students_by_class holds for the active class
SetPool(new) ==
    /\ session_students' = new
    /\ session_students_by_class' =
          IF rev = "latest" /\ active_class # None
          THEN [session_students_by_class EXCEPT ![active_class] = new]
          ELSE session_students_by_class

\* a write through self.student_grades, likewise
SetGrades(new) ==
    /\ student_grades' = new
    /\ student_grades_by_class' =
          IF rev = "latest" /\ active_class # None
          THEN [student_grades_by_class EXCEPT ![active_class] = new]
          ELSE student_grades_by_class

\* d[k] = v of a dict
DictSet(d, k, v) == [x \in (DOMAIN d) \cup {k} |-> IF x = k THEN v ELSE d[x]]

\* the audio of _show_slot_window: the slot loop, which the latest revision
\* plays with the slot effect only
SlotAudio(r) ==
    IF r.slot_effect_enabled
    THEN play_music_loop(sound, _slot_sound_for_duration(r.duration))
    ELSE {Returns(sound)}

\* the window of a _show_slot_window that an exception has ended before it
\* scheduled its callbacks
Unscheduled(r) == [r EXCEPT !.pending = FALSE, !.timeup = FALSE]

\* a _next_student that goes to the summary while one student is left
_next_student_Early(class_name, ss, ex, rs, pp, sm, fills) ==
    IF ex
    THEN /\ rounds' = ClearRoot(rs)
         /\ popups' = <<>>
         /\ summaries' = 0
         /\ exit_requested' = ex
         /\ last_callback' = ORDINARY
         /\ UNCHANGED sound
    ELSE IF Len(ss) <= 1
    THEN /\ sm < MaxSummaries
         /\ summaries' = sm + 1
         /\ exit_requested' = FALSE
         /\ rounds' = rs
         /\ popups' = pp
         /\ last_callback' = SUMMARY
         /\ UNCHANGED sound
    ELSE /\ Len(rs) < MaxRounds
         /\ \E final_student \in Range(ss) :
               \E r \in NewRounds(class_name, final_student, ss, fills) :
                  \E o \in SlotAudio(r) :
                     /\ sound' = o.snd
                     /\ rounds' = Append(rs, IF o.raised THEN Unscheduled(r) ELSE r)
         /\ popups' = pp
         /\ summaries' = sm
         /\ exit_requested' = ex
         /\ last_callback' = ORDINARY

\* _next_student(class_name), entered with the values ss, ex, rs, pp, sm of
\* session_students, exit_requested, rounds, popups and summaries
_next_student(class_name, ss, ex, rs, pp, sm, fills) ==
    IF ex
    THEN /\ rounds' = ClearRoot(rs)
         /\ popups' = <<>>
         /\ summaries' = 0
         /\ exit_requested' = ex
         /\ last_callback' = ORDINARY
         /\ UNCHANGED sound
    ELSE IF ss = <<>>
    THEN /\ sm < MaxSummaries
         /\ summaries' = sm + 1
         /\ exit_requested' = FALSE
         /\ rounds' = rs
         /\ popups' = pp
         /\ last_callback' = SUMMARY
         /\ UNCHANGED sound
    ELSE /\ Len(rs) < MaxRounds
         /\ \E final_student \in Range(ss) :
               \E r \in NewRounds(class_name, final_student, ss, fills) :
                  \E o \in SlotAudio(r) :
                     /\ sound' = o.snd
                     /\ rounds' = Append(rs, IF o.raised THEN Unscheduled(r) ELSE r)
         /\ popups' = pp
         /\ summaries' = sm
         /\ exit_requested' = ex
         /\ last_callback' = ORDINARY

\* "if class_name == 'Select a Class' or class_name not in self.classes"
InvalidClass(class_name) ==
    class_name = SELECT_A_CLASS \/ class_name \notin DOMAIN classes

\* a _start_session that forgets the running session before it validates
ShowError_Resets ==
    /\ exit_requested' = FALSE
    /\ last_callback' = START_ERROR
    /\ session_students' = <<>>
    /\ UNCHANGED <<session_students_by_class, GradeVars, active_class, rounds, popups,
                   summaries, sound, done>>

\* _start_session up to its messagebox.showerror(...) and return
ShowError ==
    /\ exit_requested' = FALSE
    /\ last_callback' = START_ERROR
    /\ UNCHANGED <<PoolVars, GradeVars, active_class, rounds, popups, summaries,
                   sound, done>>

\* a _start_session of the earlier revisions that goes on with the pool and
\* the grade book it finds, as long as the pool has students
StartSessionEarly_Resume(fills) ==
    /\ rev # "latest"
    /\ IF InvalidClass(selected_class)
       THEN ShowError
       ELSE LET ss == IF session_students # <<>> THEN session_students
                      ELSE classes[selected_class]
            IN /\ session_students' = ss
               /\ student_grades' = IF session_students # <<>> THEN student_grades
                                     ELSE <<>>
               /\ done' = {}
               /\ UNCHANGED <<session_students_by_class, student_grades_by_class,
                              active_class>>
               /\ _next_student(selected_class, ss, FALSE, rounds, popups,
                                 summaries, fills)
    /\ UNCHANGED AppVars

\* _start_session of selection_r3 and selection_r5
StartSessionEarly(fills) ==
    /\ rev # "latest"
    /\ IF InvalidClass(selected_class)
       THEN ShowError
       ELSE LET ss == classes[selected_class]
            IN /\ session_students' = ss
               /\ student_grades' = <<>>
               /\ done' = {}
               /\ UNCHANGED <<session_students_by_class, student_grades_by_class,
                              active_class>>
               /\ IF ss = <<>>
                  THEN /\ exit_requested' = FALSE
                       /\ last_callback' = START_ERROR
                       /\ UNCHANGED <<rounds, popups, summaries, sound>>
                  ELSE _next_student(selected_class, ss, FALSE, rounds, popups,
                                     summaries, fills)
    /\ UNCHANGED AppVars

\* a _start_session that takes a fresh copy of the roster and an empty grade
\* book at every Start, as selection_r5 does
StartSessionLatest_Reset(fills) ==
    /\ rev = "latest"
    /\ IF InvalidClass(selected_class)
       THEN ShowError
       ELSE LET by_class == DictSet(session_students_by_class, selected_class,
                                    classes[selected_class])
                grades == DictSet(student_grades_by_class, selected_class, <<>>)
            IN /\ session_students_by_class' = by_class
               /\ student_grades_by_class' = grades
               /\ active_class' = selected_class
               /\ session_students' = by_class[selected_class]
               /\ student_grades' = grades[selected_class]
               /\ UNCHANGED done
               /\ _next_student(selected_class, by_class[selected_class], FALSE,
                                rounds, popups, summaries, fills)
    /\ UNCHANGED AppVars

\* a _start_session that takes the roster again once the pool of the class
\* has run empty
StartSessionLatest_Refill(fills) ==
    /\ rev = "latest"
    /\ IF InvalidClass(selected_class)
       THEN ShowError
       ELSE LET by_class ==
                    IF \/ selected_class \notin DOMAIN session_students_by_class
                       \/ session_students_by_class[selected_class] = <<>>
                    THEN DictSet(session_students_by_class, selected_class,
                                 classes[selected_class])
                    ELSE session_students_by_class
                grades ==
                    IF selected_class \notin DOMAIN student_grades_by_class
                    THEN DictSet(student_grades_by_class, selected_class, <<>>)
                    ELSE student_grades_by_class
            IN /\ session_students_by_class' = by_class
               /\ student_grades_by_class' = grades
               /\ active_class' = selected_class
               /\ session_students' = by_class[selected_class]
               /\ student_grades' = grades[selected_class]
               /\ UNCHANGED done
               /\ _next_student(selected_class, by_class[selected_class], FALSE,
                                rounds, popups, summaries, fills)
    /\ UNCHANGED AppVars

\* _start_session of studentselector
StartSessionLatest(fills) ==
    /\ rev = "latest"
    /\ IF InvalidClass(selected_class)
       THEN ShowError
       ELSE IF /\ selected_class \notin DOMAIN session_students_by_class
               /\ classes[selected_class] = <<>>
       THEN ShowError
       ELSE LET by_class ==
                    IF selected_class \notin DOMAIN session_students_by_class
                    THEN DictSet(session_students_by_class, selected_class,
                                 classes[selected_class])
                    ELSE session_students_by_class
                grades ==
                    IF selected_class \notin DOMAIN student_grades_by_class
                    THEN DictSet(student_grades_by_class, selected_class, <<>>)
                    ELSE student_grades_by_class
            IN /\ session_students_by_class' = by_class
               /\ student_grades_by_class' = grades
               /\ active_class' = selected_class
               /\ session_students' = by_class[selected_class]
               /\ student_grades' = grades[selected_class]
               /\ UNCHANGED done
               /\ IF by_class[selected_class] = <<>>
                  THEN /\ summaries < MaxSummaries
                       /\ summaries' = summaries + 1
                       /\ exit_requested' = FALSE
                       /\ last_callback' = SUMMARY
                       /\ UNCHANGED <<rounds, popups, sound>>
                  ELSE _next_student(selected_class, by_class[selected_class], FALSE,
                                     rounds, popups, summaries, fills)
    /\ UNCHANGED AppVars

_start_session(fills) == StartSessionEarly(fills) \/ StartSessionLatest(fills)

-----------------------------------------------------------------------------
(* The reel animator *)

SetRound(i, r) == rounds' = Retire([rounds EXCEPT ![i] = r])

\* a tick that returns at its guard, or raises at its first widget call
LateTick(i, r) ==
    /\ SetRound(i, [r EXCEPT !.pending = FALSE])
    /\ last_callback' = LATE_TICK
    /\ UNCHANGED <<PoolVars, sound, done>>

\* a tick that neither finishes the round nor finds it torn down
Turn(i, r) ==
    /\ SetRound(i, r)
    /\ NoHistory
    /\ UNCHANGED <<PoolVars, sound>>

\* a guard that looks at the liveness flag only
TornDown_AliveOnly(r) == ~r.alive

\* the guard at the top of _frame and _frame_no_effect
TornDown(r) == (~r.alive) \/ (~r.win_exists)

\* _finalize without the exchange of the handles: the text of the winner
\* goes to the item that was the centre one before the settle
FinalizeReel_NoSwap(r, center) ==
    [r EXCEPT !.cur_raw = r.final_student,
              !.text[r.t_cur] = _format_name(r.final_student),
              !.hidden[r.t_prev] = TRUE,
              !.hidden[r.t_next] = TRUE,
              !.status = "Selected",
              !.finalized = Min(r.finalized + 1, MaxCount),
              !.pending = FALSE]

\* _finalize after which _frame goes on to win.after(16, _frame)
FinalizeReel_Reschedule(r, center) ==
    LET sw == IF center = "t_next"
              THEN [r EXCEPT !.t_cur = r.t_next, !.t_next = r.t_cur]
              ELSE IF center = "t_prev"
              THEN [r EXCEPT !.t_cur = r.t_prev, !.t_prev = r.t_cur]
              ELSE r
    IN [sw EXCEPT !.cur_raw = r.final_student,
                  !.text[sw.t_cur] = _format_name(r.final_student),
                  !.hidden[sw.t_prev] = TRUE,
                  !.hidden[sw.t_next] = TRUE,
                  !.status = "Selected",
                  !.finalized = Min(r.finalized + 1, MaxCount)]

\* the reel part of _finalize(center_item) of studentselector; center is
\* the handle passed as center_item
FinalizeReel(r, center) ==
    LET sw == IF center = "t_next"
              THEN [r EXCEPT !.t_cur = r.t_next, !.t_next = r.t_cur]
              ELSE IF center = "t_prev"
              THEN [r EXCEPT !.t_cur = r.t_prev, !.t_prev = r.t_cur]
              ELSE r
    IN [sw EXCEPT !.cur_raw = r.final_student,
                  !.text[sw.t_cur] = _format_name(r.final_student),
                  !.hidden[sw.t_prev] = TRUE,
                  !.hidden[sw.t_next] = TRUE,
                  !.status = "Selected",
                  !.finalized = Min(r.finalized + 1, MaxCount),
                  !.pending = FALSE]

\* the reel part of _finalize() of selection_r5: no handle is swapped
FinalizeReelR5(r) == FinalizeReel(r, "t_cur")

\* a _finalize that leaves the winner in the pool
PoolAfterWin_Keep(ss, final_student) == ss

\* a removal that puts the winner at the end of the pool
PoolAfterWin_ToBack(ss, final_student) ==
    IF final_student \in Range(ss)
    THEN Append(ListRemove(ss, final_student), final_student)
    ELSE ss

\* the pool after "if final_student in self.session_students: remove"
PoolAfterWin(ss, final_student) ==
    IF final_student \in Range(ss) THEN ListRemove(ss, final_student) ELSE ss

\* _finalize as a whole: the reel, stop_music, the pool, the remaining
\* label and _render_grading_controls; an exception out of stop_music would
\* end the callback there
Finalize(i, fin) ==
    LET new == PoolAfterWin(session_students, fin.final_student)
    IN \E o \in stop_music(sound) :
          /\ sound' = o.snd
          /\ IF o.raised
             THEN /\ SetRound(i, IF rev = "r3"
                                 THEN [rounds[i] EXCEPT !.pending = FALSE]
                                 ELSE [fin EXCEPT !.pending = FALSE])
                  /\ UNCHANGED PoolVars
                  /\ NoHistory
             ELSE /\ SetPool(new)
                  /\ SetRound(i, [fin EXCEPT !.remaining_label = Len(new),
                                             !.grading = TRUE])
                  /\ done' = done \cup {<<fin.class_name, fin.final_student>>}
                  /\ last_callback' = ORDINARY

\* an interpolation that starts at the row line instead of at the phase
\* the reel had when the final mode was entered
SettlePhase_FromZero(fsp, fe) ==
    LET k == Min(fe, final_roll_time)
        F3 == final_roll_time * final_roll_time * final_roll_time
        rest == (final_roll_time - k) * (final_roll_time - k) * (final_roll_time - k)
    IN (RowH * (F3 - rest)) \div F3

\* phase = final_start_phase + (row_h - final_start_phase) * eased, with
\* eased = 1 - (1 - progress_t)^3 and progress_t = min(1, fe / final_roll_time)
SettlePhase(fsp, fe) ==
    LET k == Min(fe, final_roll_time)
        F3 == final_roll_time * final_roll_time * final_roll_time
        rest == (final_roll_time - k) * (final_roll_time - k) * (final_roll_time - k)
    IN fsp + ((RowH - fsp) * (F3 - rest)) \div F3

\* the final mode entered from half of the duration on
EnterFinal_Early(r) ==
    IF (~r.final_mode) /\ 2 * r.elapsed >= r.duration
    THEN [r EXCEPT !.final_mode = TRUE,
                   !.final_elapsed = 0,
                   !.final_start_phase = r.phase,
                   !.next_raw = r.final_student,
                   !.text[r.t_next] = _format_name(r.final_student)]
    ELSE r

\* a final mode entered without forcing the next slot: the filler drawn
\* last stays there
EnterFinal_KeepNext(r) ==
    IF (~r.final_mode) /\ r.elapsed >= r.duration
    THEN [r EXCEPT !.final_mode = TRUE,
                   !.final_elapsed = 0,
                   !.final_start_phase = r.phase]
    ELSE r

\* "if (not final_mode) and (elapsed >= duration)" of _frame
EnterFinal(r) ==
    IF (~r.final_mode) /\ r.elapsed >= r.duration
    THEN [r EXCEPT !.final_mode = TRUE,
                   !.final_elapsed = 0,
                   !.final_start_phase = r.phase,
                   !.next_raw = r.final_student,
                   !.text[r.t_next] = _format_name(r.final_student)]
    ELSE r

\* _frame of studentselector
_frame(i, advs, fills) ==
    LET r == rounds[i] IN
    /\ rev = "latest" /\ r.slot_effect_enabled /\ r.pending
    /\ UNCHANGED <<AppVars, GradeVars, active_class, exit_requested, popups, summaries>>
    /\ IF TornDown(r)
       THEN LateTick(i, r)
       ELSE LET r1 == [EnterFinal(r) EXCEPT !.dt = 0]
            IN IF ~r1.final_mode
               THEN \E adv \in advs :
                       \E q \in RotationLoop(r1, r1.phase + adv, fills) :
                          Turn(i, _render(q, q.phase))
               ELSE LET ph == SettlePhase(r1.final_start_phase, r1.final_elapsed)
                        r2 == _render([r1 EXCEPT !.phase = ph], ph)
                    IN IF r1.final_elapsed >= final_roll_time
                       THEN Finalize(i, FinalizeReel(r2, "t_next"))
                       ELSE Turn(i, r2)

\* a _frame_no_effect that finishes the round from half of the duration on
_frame_no_effect_Early(i) ==
    LET r == rounds[i] IN
    /\ rev = "latest" /\ (~r.slot_effect_enabled) /\ r.pending
    /\ UNCHANGED <<AppVars, GradeVars, active_class, exit_requested, popups, summaries>>
    /\ IF TornDown(r)
       THEN LateTick(i, r)
       ELSE IF 2 * r.elapsed >= r.duration
       THEN Finalize(i, FinalizeReel(r, "t_cur"))
       ELSE Turn(i, r)

\* _frame_no_effect of studentselector
_frame_no_effect(i) ==
    LET r == rounds[i] IN
    /\ rev = "latest" /\ (~r.slot_effect_enabled) /\ r.pending
    /\ UNCHANGED <<AppVars, GradeVars, active_class, exit_requested, popups, summaries>>
    /\ IF TornDown(r)
       THEN LateTick(i, r)
       ELSE IF r.elapsed >= r.duration
       THEN Finalize(i, FinalizeReel(r, "t_cur"))
       ELSE Turn(i, r)

\* phase increments of the final roll that never take all of what remains
FinalIncrements_Partial(r) ==
    LET remaining == Max(0, RowH - r.phase)
    IN 0..Max(0, remaining - 2)

\* the phase increments "min(remaining, (remaining / remaining_time) * dt)"
\* of selection_r5 can give: all of remaining once dt reaches remaining_time,
\* a part of it before
FinalIncrements(r) ==
    LET remaining == Max(0, RowH - r.phase)
        remaining_time == Max(min_remaining_time, final_roll_time_r5 - r.final_elapsed)
    IN IF r.dt >= remaining_time THEN {remaining}
       ELSE 0..Max(0, remaining - 1)

\* _frame of selection_r5
_frame_r5(i, advs, fills) ==
    LET r == rounds[i] IN
    /\ rev = "r5" /\ r.pending
    /\ UNCHANGED <<AppVars, GradeVars, active_class, exit_requested, popups, summaries>>
    /\ IF TornDown(r)
       THEN LateTick(i, r)
       ELSE LET r1 == EnterFinal(r)
                incs == IF ~r1.final_mode THEN advs ELSE FinalIncrements(r1)
            IN \E inc \in incs :
                 \E q \in RotationLoop([r1 EXCEPT !.dt = 0], r1.phase + inc, fills) :
                    LET q2 == _render(q, q.phase)
                        rotated == NRot(r1.phase + inc) > 0
                    IN IF /\ q2.final_mode /\ rotated
                          /\ q2.phase < FinalTol /\ 0 - q2.phase < FinalTol
                          /\ q2.cur_raw = q2.final_student
                       THEN Finalize(i, FinalizeReelR5(q2))
                       ELSE Turn(i, q2)

\* tick of selection_r3; it has no liveness flag: on a destroyed window the
\* first widget call raises and the callback ends there
tick_r3(i, fills) ==
    LET r == rounds[i] IN
    /\ rev = "r3" /\ r.pending
    /\ UNCHANGED <<AppVars, GradeVars, active_class, exit_requested, popups, summaries>>
    /\ IF ~r.win_exists
       THEN LateTick(i, r)
       ELSE IF r.elapsed < r.duration
       THEN IF session_students = <<>>
            THEN /\ SetRound(i, [r EXCEPT !.pending = FALSE])
                 /\ NoHistory
                 /\ UNCHANGED <<PoolVars, sound>>
            ELSE \E c \in Choices(session_students, fills) :
                    Turn(i, [r EXCEPT !.text["C"] = c])
       ELSE Finalize(i, [r EXCEPT !.text["C"] = r.final_student,
                                  !.finalized = Min(r.finalized + 1, MaxCount),
                                  !.pending = FALSE])

\* the wall clock moves on by d units, as the pending callbacks will see it
Live(r) == r.pending /\ r.win_exists /\ r.alive

\* the differences of time stamps are kept up to the largest value the
\* callbacks compare them with
DtCap == IF rev = "r5" THEN final_roll_time_r5 ELSE 0
FinalCap == IF rev = "r5" THEN final_roll_time_r5 ELSE final_roll_time

Advance(d) ==
    /\ \E i \in DOMAIN rounds : Live(rounds[i])
    /\ rounds' = [i \in DOMAIN rounds |->
                    IF Live(rounds[i])
                    THEN [rounds[i] EXCEPT
                            !.elapsed = Min(@ + d, rounds[i].duration),
                            !.dt = Min(@ + d, DtCap),
                            !.final_elapsed =
                                IF rounds[i].final_mode
                                THEN Min(@ + d, FinalCap)
                                ELSE 0]
                    ELSE rounds[i]]
    /\ UNCHANGED <<AppVars, PoolVars, GradeVars, active_class, exit_requested,
                   popups, summaries, sound, done, last_callback>>

-----------------------------------------------------------------------------
(* Windows and buttons *)

\* an on_close that destroys its own window only and leaves the popups and
\* the other windows open
on_close_OwnWindow(i) ==
    LET r == rounds[i] IN
    /\ r.win_exists
    /\ exit_requested' = TRUE
    /\ rounds' = Retire([rounds EXCEPT ![i] = Destroy([r EXCEPT !.alive = (rev = "r3")])])
    /\ \E o \in stop_music(sound) : sound' = o.snd
    /\ UNCHANGED <<AppVars, PoolVars, GradeVars, active_class, popups, summaries>>
    /\ NoHistory

\* on_close of the slot window (Escape or the window's close button); the
\* liveness flag exists from selection_r5 on; stop_music is called inside a
\* try of its own
on_close(i) ==
    LET r == rounds[i] IN
    /\ r.win_exists
    /\ exit_requested' = TRUE
    /\ \E o \in stop_music(sound) : sound' = o.snd
    /\ rounds' = ClearRoot([rounds EXCEPT ![i].alive = (rev = "r3")])
    /\ popups' = <<>>
    /\ summaries' = 0
    /\ UNCHANGED <<AppVars, PoolVars, GradeVars, active_class>>
    /\ NoHistory

\* a fallback that takes a message of any rating when the rating clicked
\* has none
FeedbackMessages_AnyRating(rating) ==
    LET msg_list == IF rating \in DOMAIN messages THEN messages[rating] ELSE <<>>
    IN IF msg_list # <<>> THEN Range(msg_list)
       ELSE UNION {Range(messages[k]) : k \in DOMAIN messages}

\* random.choice(msg_list) if msg_list else "Noted."
FeedbackMessages(rating) ==
    LET msg_list == IF rating \in DOMAIN messages THEN messages[rating] ELSE <<>>
    IN IF msg_list # <<>> THEN Range(msg_list) ELSE {NOTED}

\* apply_rating(rating) of the rating buttons _finalize renders in window i;
\* an exception out of play_music_once would end the callback with the
\* grade written and the window still open
apply_rating(i, rating) ==
    LET r == rounds[i] IN
    /\ r.win_exists /\ r.grading
    /\ Len(popups) < MaxPopups
    /\ SetGrades(DictSet(student_grades, r.final_student, rating))
    /\ \E o \in play_music_once(sound, RatingSound(rating)) :
          /\ sound' = o.snd
          /\ IF o.raised
             THEN UNCHANGED <<rounds, popups>>
             ELSE /\ \E msg \in FeedbackMessages(rating) :
                       popups' = Append(popups, [class_name |-> r.class_name,
                                                 message |-> msg])
                  /\ SetRound(i, Destroy(r))
    /\ UNCHANGED <<AppVars, PoolVars, active_class, exit_requested, summaries>>
    /\ NoHistory

RemoveAt(s, j) == SubSeq(s, 1, j - 1) \o SubSeq(s, j + 1, Len(s))

\* next_student of feedback popup j
next_student(j, fills) ==
    /\ j \in DOMAIN popups
    /\ _next_student(popups[j].class_name, session_students, exit_requested,
                     rounds, RemoveAt(popups, j), summaries, fills)
    /\ UNCHANGED <<AppVars, PoolVars, GradeVars, active_class, done>>

\* an exit_to_main that ends the session: the pool of the active class is
\* emptied
exit_to_main_Forget(j) ==
    /\ j \in DOMAIN popups
    /\ exit_requested' = TRUE
    /\ rounds' = ClearRoot(rounds)
    /\ popups' = <<>>
    /\ summaries' = 0
    /\ SetPool(<<>>)
    /\ UNCHANGED <<AppVars, GradeVars, active_class, sound>>
    /\ NoHistory

\* exit_to_main of feedback popup j (Exit, Escape or the close button)
exit_to_main(j) ==
    /\ j \in DOMAIN popups
    /\ exit_requested' = TRUE
    /\ rounds' = ClearRoot(rounds)
    /\ popups' = <<>>
    /\ summaries' = 0
    /\ UNCHANGED <<AppVars, PoolVars, GradeVars, active_class, sound>>
    /\ NoHistory

\* _show_grades_summary, from the Grades button of the main screen
_show_grades_summary ==
    /\ summaries < MaxSummaries
    /\ summaries' = summaries + 1
    /\ exit_requested' = FALSE
    /\ UNCHANGED <<AppVars, PoolVars, GradeVars, active_class, rounds, popups, sound>>
    /\ NoHistory

\* Close or Escape of a summary window
CloseSummary ==
    /\ summaries > 0
    /\ summaries' = summaries - 1
    /\ UNCHANGED <<AppVars, PoolVars, GradeVars, active_class, exit_requested,
                   rounds, popups, sound>>
    /\ NoHistory

\* the class combobox: the value is set and _on_class_selected runs
_on_class_selected(c) ==
    /\ selected_class' = c
    /\ exit_requested' = FALSE
    /\ UNCHANGED <<rev, classes, time_seconds, slot_effect_enabled_var, PoolVars,
                   GradeVars, active_class, rounds, popups, summaries, sound>>
    /\ NoHistory

\* _set_preset(seconds), or an edit of the minutes and seconds spin boxes
_set_preset(seconds) ==
    /\ time_seconds' = TimerFields(rev, seconds)
    /\ UNCHANGED <<rev, classes, selected_class, slot_effect_enabled_var, PoolVars,
                   GradeVars, active_class, exit_requested, rounds, popups, summaries,
                   sound>>
    /\ NoHistory

\* the timer variables come to hold v: a text typed into the spin boxes of
\* the earlier revisions, a value set on time_preset_var in the latest
EditTimer(v) ==
    /\ time_seconds' = v
    /\ UNCHANGED <<rev, classes, selected_class, slot_effect_enabled_var, PoolVars,
                   GradeVars, active_class, exit_requested, rounds, popups, summaries,
                   sound>>
    /\ NoHistory

\* the Slot Effect check button of studentselector
_on_slot_effect_toggle ==
    /\ rev = "latest"
    /\ slot_effect_enabled_var' = ~slot_effect_enabled_var
    /\ UNCHANGED <<rev, classes, selected_class, time_seconds, PoolVars, GradeVars,
                   active_class, exit_requested, rounds, popups, summaries, sound>>
    /\ NoHistory

\* _on_sound_toggle: the check button has toggled sound_enabled_var
_on_sound_toggle ==
    /\ \E o \in set_enabled(sound, ~sound.enabled) : sound' = o.snd
    /\ UNCHANGED <<AppVars, PoolVars, GradeVars, active_class, exit_requested,
                   rounds, popups, summaries>>
    /\ NoHistory

\* a time-up callback that may run at any time after the window is built
_timeup_safe_Early(i) ==
    LET r == rounds[i] IN
    /\ r.timeup
    /\ rounds' = [rounds EXCEPT ![i].timeup = FALSE]
    /\ IF rev = "r3" \/ (r.alive /\ r.win_exists)
       THEN \E o \in play_timeup(sound, TIMEUP_SOUND) : sound' = o.snd
       ELSE UNCHANGED sound
    /\ UNCHANGED <<AppVars, PoolVars, GradeVars, active_class, exit_requested,
                   popups, summaries>>
    /\ NoHistory

\* the time-up callback of slot window i, due 200 ms before the duration is
\* over (scheduled for durations from 10 s on in the earlier revisions);
\* selection_r3 schedules play_timeup itself, as a callback of the window
_timeup_safe(i) ==
    LET r == rounds[i] IN
    /\ r.timeup
    /\ r.elapsed + timeup_lead >= r.duration
    /\ rounds' = [rounds EXCEPT ![i].timeup = FALSE]
    /\ IF rev = "r3" \/ (r.alive /\ r.win_exists)
       THEN \E o \in play_timeup(sound, TIMEUP_SOUND) : sound' = o.snd
       ELSE UNCHANGED sound
    /\ UNCHANGED <<AppVars, PoolVars, GradeVars, active_class, exit_requested,
                   popups, summaries>>
    /\ NoHistory

\* the mixer comes to the end of a track that does not loop
MusicEnds ==
    /\ sound.music # None /\ ~sound.loop
    /\ sound' = [sound EXCEPT !.music = None]
    /\ UNCHANGED <<AppVars, PoolVars, GradeVars, active_class, exit_requested,
                   rounds, popups, summaries>>
    /\ NoHistory

\* the mixer comes to the end of the Sound on its channel
SoundEnds ==
    /\ sound.channel
    /\ sound' = [sound EXCEPT !.channel = FALSE]
    /\ UNCHANGED <<AppVars, PoolVars, GradeVars, active_class, exit_requested,
                   rounds, popups, summaries>>
    /\ NoHistory

\* _play_intro and _play_closing; play_music_once is their last statement
_play_intro ==
    /\ exit_requested' = FALSE
    /\ \E path \in {INTRO_MUSIC, CLOSING_MUSIC} :
          \E o \in play_music_once(sound, path) : sound' = o.snd
    /\ UNCHANGED <<AppVars, PoolVars, GradeVars, active_class, rounds, popups,
                   summaries>>
    /\ NoHistory

-----------------------------------------------------------------------------
(* The application.  What the environment does is drawn from small sets:   *)
(* the amounts by which the wall clock is seen to advance between          *)
(* callbacks, the phase advances cur_rows_per_sec * row_h * dt of a        *)
(* spinning tick, the outcomes of the cosmetic random draws, the timer     *)
(* values the teacher sets, in seconds (0 is "0 min 0 s"), and the ratings *)
(* the teacher clicks.  The timer and the slot effect are set while no     *)
(* slot window or popup is open.                                           *)

AllClosed == popups = <<>> /\ \A i \in DOMAIN rounds : ~rounds[i].win_exists

\* a stall longer than any round
Stall == 120 * UnitsPerSecond

\* the whole application, every interleaving of up to MaxRounds windows;
\* the clock is seen at the start and after the end of a round, the reel
\* stands still while it spins and shows the first student of the pool
Init == InitWith({RosterSameName})

Next ==
    \/ _start_session("first")
    \/ \E c \in {SELECT_A_CLASS} \cup DOMAIN classes : _on_class_selected(c)
    \/ AllClosed /\ _set_preset(DefaultTime(rev))
    \/ AllClosed /\ _on_slot_effect_toggle
    \/ _play_intro
    \/ _show_grades_summary
    \/ CloseSummary
    \/ \E i \in DOMAIN rounds : _frame(i, {0}, "first")
    \/ \E i \in DOMAIN rounds : _frame_no_effect(i)
    \/ \E i \in DOMAIN rounds : _frame_r5(i, {0}, "first")
    \/ \E i \in DOMAIN rounds : tick_r3(i, "first")
    \/ \E i \in DOMAIN rounds : on_close(i)
    \/ \E i \in DOMAIN rounds : apply_rating(i, "A")
    \/ \E j \in DOMAIN popups : next_student(j, "first")
    \/ \E j \in DOMAIN popups : exit_to_main(j)
    \/ Advance(Stall)

Spec == Init /\ [][Next]_vars

\* one slot window at a time, with irregular ticks and phase advances: the
\* teacher uses the main screen only while no slot window or popup is open
InitReel == InitWith({RosterOneClass, RosterOneStudent})

NextReel ==
    \/ AllClosed /\ _start_session("any")
    \/ AllClosed /\ \E c \in {SELECT_A_CLASS} \cup DOMAIN classes : _on_class_selected(c)
    \/ AllClosed /\ \E s \in {0, DefaultTime(rev)} : _set_preset(s)
    \/ AllClosed /\ _on_slot_effect_toggle
    \/ AllClosed /\ _play_intro
    \/ AllClosed /\ _show_grades_summary
    \/ CloseSummary
    \/ \E i \in DOMAIN rounds : _frame(i, 0..MaxAdv, "any")
    \/ \E i \in DOMAIN rounds : _frame_no_effect(i)
    \/ \E i \in DOMAIN rounds : _frame_r5(i, 0..MaxAdv, "any")
    \/ \E i \in DOMAIN rounds : tick_r3(i, "any")
    \/ \E i \in DOMAIN rounds : on_close(i)
    \/ \E i \in DOMAIN rounds : \E rating \in {"A", "C"} : apply_rating(i, rating)
    \/ \E j \in DOMAIN popups : next_student(j, "any")
    \/ \E j \in DOMAIN popups : exit_to_main(j)
    \/ \E d \in {10, Stall} : Advance(d)

SpecReel == InitReel /\ [][NextReel]_vars

\* one session from Start to the summary: Start is pressed once, every
\* round runs to DONE and is rated, nothing is closed and nobody exits
NotStarted ==
    /\ active_class = None
    /\ session_students = <<>> /\ student_grades = <<>>
    /\ rounds = <<>> /\ done = {}

NextSession ==
    \/ NotStarted /\ _start_session("any")
    \/ NotStarted /\ \E c \in {SELECT_A_CLASS} \cup DOMAIN classes : _on_class_selected(c)
    \/ NotStarted /\ \E s \in {0, DefaultTime(rev)} : _set_preset(s)
    \/ NotStarted /\ _on_slot_effect_toggle
    \/ _play_intro
    \/ _show_grades_summary
    \/ CloseSummary
    \/ \E i \in DOMAIN rounds : _frame(i, 0..MaxAdv, "any")
    \/ \E i \in DOMAIN rounds : _frame_no_effect(i)
    \/ \E i \in DOMAIN rounds : _frame_r5(i, 0..MaxAdv, "any")
    \/ \E i \in DOMAIN rounds : tick_r3(i, "any")
    \/ \E i \in DOMAIN rounds : \E rating \in {"A", "C"} : apply_rating(i, rating)
    \/ \E j \in DOMAIN popups : next_student(j, "any")
    \/ \E d \in {10, Stall} : Advance(d)

SpecSession == InitReel /\ [][NextSession]_vars

\* the whole application as in Spec, the teacher clicking a rating that has
\* messages or one that has none
NextGrading ==
    \/ _start_session("first")
    \/ \E c \in {SELECT_A_CLASS} \cup DOMAIN classes : _on_class_selected(c)
    \/ AllClosed /\ _set_preset(DefaultTime(rev))
    \/ AllClosed /\ _on_slot_effect_toggle
    \/ _play_intro
    \/ _show_grades_summary
    \/ CloseSummary
    \/ \E i \in DOMAIN rounds : _frame(i, {0}, "first")
    \/ \E i \in DOMAIN rounds : _frame_no_effect(i)
    \/ \E i \in DOMAIN rounds : _frame_r5(i, {0}, "first")
    \/ \E i \in DOMAIN rounds : tick_r3(i, "first")
    \/ \E i \in DOMAIN rounds : on_close(i)
    \/ \E i \in DOMAIN rounds : \E rating \in {"A", "C"} : apply_rating(i, rating)
    \/ \E j \in DOMAIN popups : next_student(j, "first")
    \/ \E j \in DOMAIN popups : exit_to_main(j)
    \/ Advance(Stall)

SpecGrading == Init /\ [][NextGrading]_vars

\* the timer: what its variables can hold when a round is started, a
\* fraction, zero, a negative number and a text that is no number among it;
\* one slot window at a time
TimerTexts == {NotANumber, <<0 - 15>>, <<0>>, <<25>>}

TimerEntries ==
    IF rev = "latest" THEN {<<a>> : a \in TimerTexts}
    ELSE {<<m, sec>> : m \in TimerTexts, sec \in TimerTexts}

NextDuration ==
    \/ AllClosed /\ \E v \in TimerEntries : EditTimer(v)
    \/ AllClosed /\ _start_session("first")
    \/ AllClosed /\ \E c \in DOMAIN classes : _on_class_selected(c)
    \/ AllClosed /\ _on_slot_effect_toggle
    \/ \E i \in DOMAIN rounds : _frame(i, {0}, "first")
    \/ \E i \in DOMAIN rounds : _frame_no_effect(i)
    \/ \E i \in DOMAIN rounds : _frame_r5(i, {0}, "first")
    \/ \E i \in DOMAIN rounds : tick_r3(i, "first")
    \/ \E i \in DOMAIN rounds : on_close(i)
    \/ Advance(Stall)

SpecDuration == Init /\ [][NextDuration]_vars

\* the application with its audio, one slot window at a time: on a machine
\* without pygame, or with the mixer initialised, where the track files
\* exist or all but the intro are missing, and where calls of the mixer
\* succeed or can raise
Machines ==
    {NoMixer} \cup {SoundManager(TRUE, files, faulty) :
                       files \in {AllTracks, {INTRO_MUSIC}}, faulty \in BOOLEAN}

InitSound == InitOn({RosterOneClass}, Machines)

NextSound ==
    \/ AllClosed /\ _start_session("first")
    \/ AllClosed /\ \E c \in DOMAIN classes : _on_class_selected(c)
    \/ AllClosed /\ _on_slot_effect_toggle
    \/ AllClosed /\ \E s \in {0, DefaultTime(rev)} : _set_preset(s)
    \/ _on_sound_toggle
    \/ _play_intro
    \/ \E i \in DOMAIN rounds : _frame(i, {0}, "first")
    \/ \E i \in DOMAIN rounds : _frame_no_effect(i)
    \/ \E i \in DOMAIN rounds : _frame_r5(i, {0}, "first")
    \/ \E i \in DOMAIN rounds : tick_r3(i, "first")
    \/ \E i \in DOMAIN rounds : _timeup_safe(i)
    \/ \E i \in DOMAIN rounds : on_close(i)
    \/ \E i \in DOMAIN rounds : apply_rating(i, "A")
    \/ \E j \in DOMAIN popups : next_student(j, "first")
    \/ \E j \in DOMAIN popups : exit_to_main(j)
    \/ Advance(Stall)
    \/ MusicEnds
    \/ SoundEnds

SpecSound == InitSound /\ [][NextSound]_vars

\* the application with its audio and every interleaving of its windows, on
\* a machine whose mixer works and has every track
InitStage == InitOn({RosterOneClass}, {SoundManager(TRUE, AllTracks, FALSE)})

NextStage ==
    \/ _start_session("first")
    \/ \E c \in DOMAIN classes : _on_class_selected(c)
    \/ _on_sound_toggle
    \/ _play_intro
    \/ \E i \in DOMAIN rounds : _frame(i, {0}, "first")
    \/ \E i \in DOMAIN rounds : _frame_r5(i, {0}, "first")
    \/ \E i \in DOMAIN rounds : tick_r3(i, "first")
    \/ \E i \in DOMAIN rounds : on_close(i)
    \/ \E i \in DOMAIN rounds : apply_rating(i, "A")
    \/ \E j \in DOMAIN popups : next_student(j, "first")
    \/ \E j \in DOMAIN popups : exit_to_main(j)
    \/ CloseSummary
    \/ Advance(Stall)
    \/ MusicEnds

SpecStage == InitStage /\ [][NextStage]_vars

\* the whole application as in Spec, on rosters read from files
InitRoster ==
    InitWith({load_students_by_class(rows) : rows \in {RowsRepeated, RowsTwoClasses}})

NextRoster ==
    \/ _start_session("first")
    \/ \E c \in DOMAIN classes : _on_class_selected(c)
    \/ \E i \in DOMAIN rounds : _frame(i, {0}, "first")
    \/ \E i \in DOMAIN rounds : _frame_no_effect(i)
    \/ \E i \in DOMAIN rounds : _frame_r5(i, {0}, "first")
    \/ \E i \in DOMAIN rounds : tick_r3(i, "first")
    \/ AllClosed /\ _on_slot_effect_toggle
    \/ \E i \in DOMAIN rounds : on_close(i)
    \/ \E i \in DOMAIN rounds : apply_rating(i, "A")
    \/ \E j \in DOMAIN popups : next_student(j, "first")
    \/ \E j \in DOMAIN popups : exit_to_main(j)
    \/ CloseSummary
    \/ Advance(Stall)

SpecRoster == InitRoster /\ [][NextRoster]_vars

\* one session that runs on: the event loop delivers every scheduled tick,
\* the wall clock advances, and the teacher rates every winner and clicks
\* Next Student on every popup; no window is closed and nobody exits
NextLoop ==
    \/ NotStarted /\ _start_session("any")
    \/ NotStarted /\ \E c \in {SELECT_A_CLASS} \cup DOMAIN classes : _on_class_selected(c)
    \/ NotStarted /\ _on_slot_effect_toggle
    \/ CloseSummary
    \/ \E i \in DOMAIN rounds : _frame(i, 0..MaxAdv, "any")
    \/ \E i \in DOMAIN rounds : _frame_no_effect(i)
    \/ \E i \in DOMAIN rounds : _frame_r5(i, 0..MaxAdv, "any")
    \/ \E i \in DOMAIN rounds : tick_r3(i, "any")
    \/ \E i \in DOMAIN rounds : \E rating \in {"A", "C"} : apply_rating(i, rating)
    \/ \E j \in DOMAIN popups : next_student(j, "any")
    \/ \E d \in {10, Stall} : Advance(d)

\* win.after(16, ...) is served by the event loop as long as it runs, and
\* time.time() grows; the clicks are the teacher's
Delivered ==
    /\ WF_vars(\E i \in DOMAIN rounds :
                   \/ _frame(i, 0..MaxAdv, "any")
                   \/ _frame_no_effect(i)
                   \/ _frame_r5(i, 0..MaxAdv, "any")
                   \/ tick_r3(i, "any"))
    /\ WF_vars(\E d \in {10, Stall} : Advance(d))

Attended ==
    /\ WF_vars(\E i \in DOMAIN rounds : \E rating \in {"A", "C"} : apply_rating(i, rating))
    /\ WF_vars(\E j \in DOMAIN popups : next_student(j, "any"))

SpecLoop == InitReel /\ [][NextLoop]_vars /\ Delivered /\ Attended

-----------------------------------------------------------------------------
(* The reel: what a slot window shows and when its round changes mode *)

\* the form a student's name is shown in
Display(name) == IF rev = "r3" THEN name ELSE _format_name(name)

\* the tick callback of window i, as SpecReel and as Spec run it
TickReel(i) ==
    \/ _frame(i, 0..MaxAdv, "any")
    \/ _frame_no_effect(i)
    \/ _frame_r5(i, 0..MaxAdv, "any")
    \/ tick_r3(i, "any")

TickSession(i) ==
    \/ _frame(i, {0}, "first")
    \/ _frame_no_effect(i)
    \/ _frame_r5(i, {0}, "first")
    \/ tick_r3(i, "first")

\* C1: in every slot window whose round has reached DONE, with the slot
\* effect or without it, exactly one reel item is shown, it is the centre
\* item, it stands on the centre line and it reads the final_student that
\* was committed when the round started (in the display form every slot
\* name is shown in), whatever fillers were rotated through before and
\* whatever the spacing of the ticks was.
C1_DoneShowsFinal ==
    \A i \in DOMAIN rounds :
        LET r == rounds[i] IN
        (r.win_exists /\ r.finalized > 0) =>
            /\ {it \in Items : ~r.hidden[it]} = {r.t_cur}
            /\ r.y[r.t_cur] < FinalTol /\ 0 - r.y[r.t_cur] < FinalTol
            /\ r.text[r.t_cur] = Display(r.final_student)

\* a round is DONE after rotations that brought another student than the
\* winner through the reel
C1_Witness ==
    \E i \in DOMAIN rounds :
        LET r == rounds[i] IN
        /\ r.win_exists /\ r.finalized = 1 /\ r.slot_effect_enabled
        /\ r.rotated
        /\ r.prev_raw # r.final_student

\* C6: the tick of a round whose window has been torn down (by on_close of
\* that window, while it was spinning or settling, with the slot effect or
\* without it, or by the teardown of all windows) returns at once: the
\* closure ends with it, no tick is scheduled again, and nothing else
\* changes: no pool, no grade book, no other window, no controller state.
C6_LateTickNoEffect ==
    [][\A i \in DOMAIN rounds :
          (rounds[i].pending /\ ~rounds[i].win_exists /\ TickSession(i)) =>
              /\ rounds' = RemoveAt(rounds, i)
              /\ UNCHANGED <<AppVars, PoolVars, GradeVars, active_class,
                             exit_requested, popups, summaries, done>>]_vars

\* a tick has run for a window that was torn down before
C6_Witness == last_callback = LATE_TICK

\* C7: in a slot window with a reel, a tick enters the final mode
\* (SPINNING -> SETTLING) only when the elapsed time has reached the
\* duration, the first tick that finds it reached enters it, and a round
\* in the final mode never leaves it: the transition happens once.
C7_EnterFinalOnce ==
    [][Len(rounds') = Len(rounds) =>
          \A i \in DOMAIN rounds :
              LET a == rounds[i]
                  b == rounds'[i]
              IN /\ a.final_mode => b.final_mode
                 /\ (~a.final_mode /\ b.final_mode) =>
                        a.win_exists /\ a.elapsed >= a.duration
                 /\ ( /\ Live(a) /\ ~a.final_mode /\ a.elapsed >= a.duration
                      /\ _frame(i, 0..MaxAdv, "any") \/ _frame_r5(i, 0..MaxAdv, "any") )
                    => b.final_mode]_vars

\* a round is settling: it has entered the final mode after ticks that
\* found the duration not reached, and a settle tick has moved the reel
C7_Witness ==
    \E i \in DOMAIN rounds :
        LET r == rounds[i] IN
        /\ r.win_exists /\ Mode(r) = "SETTLING"
        /\ r.rotated
        /\ r.phase > r.final_start_phase

\* C8: a round becomes DONE in a tick and in no other step; with the reel
\* of the latest revision it does so in the first settle tick that finds
\* the final roll time elapsed (progress >= 1.0) and in no tick before;
\* a DONE round shows the rating controls (and, where the window has a
\* reel, the "Selected" status) with the previous and next slots hidden,
\* _finalize has run once for it, and no tick of it is scheduled.
C8_DoneOnce ==
    [][/\ \A i \in DOMAIN rounds' :
             LET b == rounds'[i] IN
             /\ b.finalized <= 1
             /\ b.finalized > 0 => ~b.pending
             /\ (b.finalized > 0 /\ b.win_exists) =>
                    /\ b.grading
                    /\ rev # "r3" => b.status = "Selected"
                    /\ b.hidden[b.t_prev] /\ b.hidden[b.t_next]
       /\ Len(rounds') = Len(rounds) =>
             \A i \in DOMAIN rounds :
                 LET a == rounds[i]
                     b == rounds'[i]
                     reel == rev = "latest" /\ a.slot_effect_enabled
                 IN /\ (a.finalized = 0 /\ b.finalized > 0) =>
                        /\ Live(a) /\ TickReel(i)
                        /\ reel => a.final_mode /\ a.final_elapsed >= final_roll_time
                    /\ ( /\ Live(a) /\ reel /\ a.final_mode
                         /\ a.final_elapsed >= final_roll_time
                         /\ _frame(i, 0..MaxAdv, "any") )
                       => b.finalized = 1]_vars

\* a round of the latest revision is DONE after a settle that took several
\* ticks
C8_Witness ==
    \E i \in DOMAIN rounds :
        LET r == rounds[i] IN
        /\ rev = "latest" /\ r.slot_effect_enabled
        /\ r.win_exists /\ r.finalized = 1 /\ r.grading
        /\ r.final_start_phase > 0

-----------------------------------------------------------------------------
(* The session: pools, winners and grade books *)

\* the SessionPool of class c: the per-class list of the latest revision,
\* the one list of the earlier ones
PoolOf(c) ==
    IF rev # "latest" THEN session_students
    ELSE IF c \in DOMAIN session_students_by_class
         THEN session_students_by_class[c] ELSE <<>>

\* round i reaches DONE in this step
ReachesDone(i) ==
    /\ Len(rounds') = Len(rounds)
    /\ rounds[i].finalized = 0 /\ rounds'[i].finalized > 0

\* C2: within one session of a class (in the latest revision the session
\* of a class lasts as long as the application runs), whatever the teacher
\* does and whenever the ticks fire (Start may be pressed while a slot
\* window is open), a round reaches DONE only with a winner that no round
\* of this class reached DONE with before.
C2_NoRepeatedWinner ==
    [][\A i \in DOMAIN rounds :
          (rev = "latest" /\ ReachesDone(i)) =>
              <<rounds[i].class_name, rounds[i].final_student>> \notin done]_vars

\* C3: in the latest revision, a round that is started for class c never
\* commits a student of c's roster who is no longer in c's SessionPool,
\* that is, whom a completed round has removed from it.
C3_NoRecommit ==
    [][(rev = "latest" /\ Len(rounds') = Len(rounds) + 1) =>
          LET r == rounds'[Len(rounds')]
              c == r.class_name
          IN ~ /\ c \in DOMAIN session_students_by_class
               /\ r.final_student \in Range(classes[c])
               /\ r.final_student \notin Range(session_students_by_class[c])]_vars

\* C4: while the window of a round is open and the round is not DONE, its
\* final_student is in the SessionPool of the class it was started for.
C4_WinnerStaysInPool ==
    \A i \in DOMAIN rounds :
        LET r == rounds[i] IN
        (r.win_exists /\ r.finalized = 0) =>
            r.final_student \in Range(PoolOf(r.class_name))

\* C5: when a round started for class c reaches DONE, its winner is not in
\* the SessionPool of c afterwards, and every pool is what it was without
\* that winner in c's: no pool loses another student, no other pool loses
\* any.
C5_DoneRemovesWinnerOnly ==
    [][\A i \in DOMAIN rounds :
          ReachesDone(i) =>
              LET c == rounds[i].class_name
                  w == rounds[i].final_student
              IN IF rev = "latest"
                 THEN /\ DOMAIN session_students_by_class' = DOMAIN session_students_by_class
                      /\ c \in DOMAIN session_students_by_class
                      /\ \A k \in DOMAIN session_students_by_class :
                            session_students_by_class'[k] =
                               SelectSeq(session_students_by_class[k],
                                         LAMBDA x : k # c \/ x # w)
                 ELSE session_students' =
                         SelectSeq(session_students, LAMBDA x : x # w)]_vars

\* the books of class c in a session that is started once
C9_Book(c) ==
    LET waiting == {rounds[i].final_student : i \in {n \in DOMAIN rounds :
                       rounds[n].win_exists /\ rounds[n].finalized > 0}}
    IN /\ Range(classes[c]) \ Range(PoolOf(c)) = DOMAIN student_grades \cup waiting
       /\ DOMAIN student_grades \cap waiting = {}
       /\ (session_students = <<>> /\ waiting = {}) =>
              Cardinality(DOMAIN student_grades) = Len(classes[c])
       /\ rev = "latest" =>
              /\ student_grades_by_class[c] = student_grades
              /\ session_students_by_class[c] = session_students

\* C9: in a session that is started once and in which every round runs to
\* DONE and is rated (nothing closed, no exit), the students gone from the
\* pool are those rated and the winner waiting for a rating; a click sets
\* the grade of that winner to the rating clicked and leaves the other
\* grades alone; so once the pool is empty and the last winner rated, the
\* grade book has one entry for each of the k students, the rating given;
\* and next_round, called then, opens the summary and commits no winner.
C9_SessionRunsOut ==
    [][/\ ~NotStarted' => C9_Book(selected_class)'
       /\ \A i \in DOMAIN rounds : \A rating \in {"A", "C"} :
             apply_rating(i, rating) =>
                /\ DOMAIN student_grades' =
                      DOMAIN student_grades \cup {rounds[i].final_student}
                /\ \A x \in DOMAIN student_grades' :
                      student_grades'[x] =
                         IF x = rounds[i].final_student THEN rating
                         ELSE student_grades[x]
       /\ student_grades' # student_grades =>
             \E i \in DOMAIN rounds : \E rating \in {"A", "C"} : apply_rating(i, rating)
       /\ \A j \in DOMAIN popups :
             (session_students = <<>> /\ next_student(j, "any")) =>
                /\ summaries' = summaries + 1
                /\ rounds' = rounds]_vars

\* both students of a class have won and been rated differently, and
\* next_round has opened the summary
C9_Witness ==
    /\ last_callback = SUMMARY
    /\ session_students = <<>> /\ rounds = <<>> /\ popups = <<>>
    /\ DOMAIN student_grades = {Ann, Bob}
    /\ student_grades[Ann] # student_grades[Bob]

\* _start_session refuses: no class is selected or the name is no class
StartRefused == InvalidClass(selected_class) /\ _start_session("first")

-----------------------------------------------------------------------------
(* The controller: starting, resuming and leaving a session *)

\* C11: in the latest revision, a Start for a valid class c creates the
\* SessionPool of c as the roster of c and the GradeBook of c empty when
\* they do not exist yet, leaves them as they are when they exist, and
\* changes the pool and the grade book of no other class.
C11_StartKeepsBooks ==
    [][(rev = "latest" /\ ~InvalidClass(selected_class) /\ _start_session("first")) =>
          LET c == selected_class IN
          /\ DOMAIN session_students_by_class' =
                DOMAIN session_students_by_class \cup {c}
          /\ \A k \in DOMAIN session_students_by_class' :
                session_students_by_class'[k] =
                   IF k \in DOMAIN session_students_by_class
                   THEN session_students_by_class[k] ELSE classes[c]
          /\ DOMAIN student_grades_by_class' =
                DOMAIN student_grades_by_class \cup {c}
          /\ \A k \in DOMAIN student_grades_by_class' :
                student_grades_by_class'[k] =
                   IF k \in DOMAIN student_grades_by_class
                   THEN student_grades_by_class[k] ELSE <<>>]_vars

\* class A is started again after its only student has won and the window
\* was closed without a rating (its pool is empty, no grade was ever given,
\* and the Start has opened the summary), class B having been started before
C11_Witness ==
    /\ rev = "latest" /\ last_callback = SUMMARY
    /\ rounds = <<>> /\ popups = <<>>
    /\ active_class = "A"
    /\ DOMAIN session_students_by_class = {"A", "B"}
    /\ session_students_by_class["A"] = <<>>
    /\ \A k \in DOMAIN student_grades_by_class : student_grades_by_class[k] = <<>>
    /\ session_students_by_class["B"] = classes["B"]

\* the callbacks that clear the exit flag
ClearsExit ==
    \/ _start_session("first")
    \/ \E c \in {SELECT_A_CLASS} \cup DOMAIN classes : _on_class_selected(c)
    \/ _play_intro
    \/ _show_grades_summary

\* an exit: on_close of a slot window or exit_to_main of a popup
Exits ==
    \/ \E i \in DOMAIN rounds : on_close(i)
    \/ \E j \in DOMAIN popups : exit_to_main(j)

\* C12 as stated: once an exit has set the exit flag, only a Start clears
\* it, and while it is set no winner is committed and no slot window opened
\* except by a Start.
C12_StickyUntilStart ==
    [][/\ Exits => exit_requested'
       /\ (exit_requested /\ ~exit_requested') => _start_session("first")
       /\ (exit_requested /\ Len(rounds') > Len(rounds)) => _start_session("first")]_vars

\* C12, with the callbacks that clear the flag as the code has them: an
\* exit sets the exit flag and leaves no slot window and no feedback popup
\* open; the flag stays set until a Start, a class selection, the intro or
\* closing music or the grades summary clears it; while it is set no slot
\* window and no popup exists, so that no next_round runs with it set, and
\* no winner is committed and no slot window opened except by a Start.
C12_StickyUntilCleared ==
    [][/\ Exits => exit_requested'
       /\ exit_requested' => AllClosed'
       /\ (exit_requested /\ ~exit_requested') => ClearsExit
       /\ (exit_requested /\ Len(rounds') > Len(rounds)) => _start_session("first")]_vars

\* the teacher has left a session that still has students in its pool, and
\* the exit flag is set
C12_Witness ==
    /\ exit_requested
    /\ session_students # <<>>
    /\ done # {}

\* C13: in the latest revision an exit (on_close of a slot window in any
\* state of its round, exit_to_main of a popup) changes the pool and the
\* grade book of no class; from the exit to the next Start no pool and no
\* grade book changes; and a Start for a class that has a pool goes on with
\* that pool and that grade book as they are.
C13_ExitKeepsBooks ==
    [][rev = "latest" =>
          /\ Exits => UNCHANGED <<PoolVars, GradeVars>>
          /\ (AllClosed /\ ~_start_session("first")) =>
                UNCHANGED <<PoolVars, GradeVars>>
          /\ ( /\ ~InvalidClass(selected_class)
               /\ selected_class \in DOMAIN session_students_by_class
               /\ _start_session("first") ) =>
                /\ session_students' = session_students_by_class[selected_class]
                /\ student_grades' = student_grades_by_class[selected_class]
                /\ UNCHANGED <<session_students_by_class, student_grades_by_class>>]_vars

\* a class whose only student had won when the teacher left without rating
\* has been started again (no grade was ever given): the Start found the
\* pool empty and the grade book empty, as the exit left them, and opened
\* the summary
C13_Witness ==
    /\ rev = "latest" /\ last_callback = SUMMARY /\ summaries = 1
    /\ rounds = <<>> /\ popups = <<>>
    /\ active_class \in DOMAIN classes
    /\ session_students = <<>> /\ student_grades = <<>>
    /\ session_students_by_class[active_class] = <<>>
    /\ \A k \in DOMAIN student_grades_by_class : student_grades_by_class[k] = <<>>

-----------------------------------------------------------------------------
(* Ratings *)

\* C14: apply_rating, which only the window of a finished round offers,
\* sets the entry of the round's winner in the grade book of the active
\* class to the rating clicked, changes no other entry, no other grade book
\* and no pool, and opens a feedback popup whose message is one of the
\* messages of that rating, or "Noted." when the rating has none.
C14_RatingRecorded ==
    [][\A i \in DOMAIN rounds : \A rating \in {"A", "C"} :
          apply_rating(i, rating) =>
             LET s == rounds[i].final_student IN
             /\ rounds[i].finalized > 0
             /\ DOMAIN student_grades' = DOMAIN student_grades \cup {s}
             /\ \A x \in DOMAIN student_grades' :
                   student_grades'[x] = IF x = s THEN rating ELSE student_grades[x]
             /\ rev = "latest" =>
                   /\ DOMAIN student_grades_by_class' = DOMAIN student_grades_by_class
                   /\ \A k \in DOMAIN student_grades_by_class :
                         student_grades_by_class'[k] =
                            IF k = active_class THEN student_grades'
                            ELSE student_grades_by_class[k]
             /\ UNCHANGED PoolVars
             /\ Len(popups') = Len(popups) + 1
             /\ popups'[Len(popups')].message \in
                   (IF rating \in DOMAIN messages /\ messages[rating] # <<>>
                    THEN Range(messages[rating]) ELSE {NOTED})]_vars

\* a winner has been rated with a rating that has no message, in the
\* window of a round of another class than the active one, and the popup
\* says "Noted."
C14_Witness ==
    /\ rev = "latest"
    /\ \E j \in DOMAIN popups :
          /\ popups[j].message = NOTED
          /\ popups[j].class_name # active_class
    /\ \E s \in DOMAIN student_grades : student_grades[s] = "C"

\* C15: a rating for student s is recorded only in the window of a round
\* with final_student s that has reached DONE; and a winner is committed
\* (a round goes to PICKING) only by Next Student of a feedback popup, that
\* is after a rating, or by a Start while no slot window and no popup is
\* open: never while a round is ANIMATING or waits for its rating.
C15_RoundOrder ==
    [][/\ \A i \in DOMAIN rounds :
             apply_rating(i, "A") =>
                /\ rounds[i].finalized > 0
                /\ <<rounds[i].class_name, rounds[i].final_student>> \in done
       /\ Len(rounds') > Len(rounds) =>
             \/ \E j \in DOMAIN popups : next_student(j, "first")
             \/ AllClosed /\ _start_session("first")]_vars

-----------------------------------------------------------------------------
(* The reel: phase and rotations *)

\* round i is SPINNING and this step is a tick of it that moves the reel:
\* the window stays open and the clock is not read anew (a window is
\* changed by its ticks, by the clock, and by what closes it)
SpinTick(i) ==
    /\ rev # "r3" /\ rounds[i].slot_effect_enabled
    /\ Live(rounds[i]) /\ ~rounds[i].final_mode
    /\ rounds[i].elapsed < rounds[i].duration
    /\ Len(rounds') = Len(rounds)
    /\ rounds'[i] # rounds[i]
    /\ rounds'[i].win_exists /\ rounds'[i].elapsed = rounds[i].elapsed

\* the slots of b are those of a after n rotation events
Rotated(a, b, n) ==
    /\ n = 0 => /\ b.prev_raw = a.prev_raw /\ b.cur_raw = a.cur_raw
                /\ b.next_raw = a.next_raw
    /\ n = 1 => b.prev_raw = a.cur_raw /\ b.cur_raw = a.next_raw
    /\ n = 2 => b.prev_raw = a.next_raw
    /\ n > 0 => b.next_raw \in Range(a.pool)
    /\ b.rotated = (a.rotated \/ n > 0)

C17_SettleMonotone ==
    [][Len(rounds') = Len(rounds) =>
          \A i \in DOMAIN rounds :
              LET a == rounds[i]
                  b == rounds'[i]
              IN (rev = "latest" /\ a.slot_effect_enabled /\ b.win_exists /\ b.final_mode) =>
                    /\ a.phase <= b.phase
                    /\ b.phase <= RowH
                    /\ (a.finalized = 0 /\ b.finalized > 0) => b.phase = RowH
                    /\ ( /\ Live(a) /\ a.final_mode /\ b # a
                         /\ b.final_elapsed = a.final_elapsed
                         /\ a.final_elapsed >= final_roll_time ) => b.phase = RowH]_vars

\* a round is DONE with the reel on the row line after a settle that
\* started a slack below the line the reel had just rotated over
C17_Witness ==
    \E i \in DOMAIN rounds :
        LET r == rounds[i] IN
        /\ rev = "latest" /\ r.slot_effect_enabled
        /\ r.win_exists /\ r.finalized = 1
        /\ r.final_start_phase < 0
        /\ r.phase = RowH

\* C18: a slot window opened with the slot effect disabled performs no
\* rotation event; as long as its round is not DONE its centre item reads
\* the placeholder and the other two items are hidden; its round becomes
\* DONE in the first tick that finds elapsed >= duration and in no step
\* before, with the committed winner in the centre item, the winner taken
\* out of the pool and the rating controls shown; and that happens once,
\* no tick being scheduled after it.
C18_NoEffectRound ==
    [][Len(rounds') = Len(rounds) =>
          \A i \in DOMAIN rounds :
              LET a == rounds[i]
                  b == rounds'[i]
              IN (rev = "latest" /\ ~a.slot_effect_enabled /\ b.win_exists) =>
                    /\ ~b.rotated /\ ~b.final_mode
                    /\ <<b.prev_raw, b.next_raw>> = <<a.prev_raw, a.next_raw>>
                    /\ b.hidden[b.t_prev] /\ b.hidden[b.t_next] /\ ~b.hidden[b.t_cur]
                    /\ b.finalized = 0 =>
                          b.text[b.t_cur] = PLACEHOLDER /\ b.cur_raw = a.cur_raw
                    /\ b.finalized <= 1
                    /\ b.finalized > 0 => ~b.pending
                    /\ (a.finalized = 0 /\ b.finalized > 0) =>
                          /\ Live(a) /\ a.elapsed >= a.duration
                          /\ b.text[b.t_cur] = _format_name(a.final_student)
                          /\ b.grading
                          /\ session_students' =
                                SelectSeq(session_students,
                                          LAMBDA x : x # a.final_student)
                    /\ ( /\ Live(a) /\ a.finalized = 0 /\ a.elapsed >= a.duration
                         /\ _frame_no_effect(i) ) => b.finalized = 1]_vars

\* a round without the slot effect is DONE and shows its winner, who has
\* left the pool while another student is still in it
C18_Witness ==
    \E i \in DOMAIN rounds :
        LET r == rounds[i] IN
        /\ rev = "latest" /\ ~r.slot_effect_enabled
        /\ r.win_exists /\ r.finalized = 1 /\ r.grading
        /\ r.text[r.t_cur] = _format_name(r.final_student)
        /\ r.final_student \notin Range(session_students)
        /\ session_students # <<>>

-----------------------------------------------------------------------------
(* Random draws *)

\* C19: random.choice is never called on an empty sequence: a round is
\* started with a winner that is in the pool at that moment and with a
\* non-empty list of candidates for its fillers, and whenever a tick draws
\* the name to show from the session pool (selection_r3), that pool is not
\* empty.
C19_NoEmptyDraw ==
    [][/\ Len(rounds') > Len(rounds) =>
             LET r == rounds'[Len(rounds')]
             IN r.final_student \in Range(session_students') /\ r.pool # <<>>
       /\ \A i \in DOMAIN rounds :
             ( /\ rev = "r3"
               /\ rounds[i].pending /\ rounds[i].win_exists
               /\ rounds[i].elapsed < rounds[i].duration
               /\ tick_r3(i, "first") ) => session_students # <<>>]_vars

\* C20: apply_rating never writes an entry of the grade book that exists:
\* within a session of a class (in the latest revision, where the book of a
\* class is kept as long as the application runs) a student is rated at
\* most once.
C20_RatedOnce ==
    [][\A i \in DOMAIN rounds :
          (rev = "latest" /\ apply_rating(i, "A")) =>
             rounds[i].final_student \notin DOMAIN student_grades]_vars

-----------------------------------------------------------------------------
(* The pool of a class and the session as a whole *)

\* C21: in the latest revision the SessionPool of a class, once created,
\* stays created and never grows: no step adds a student to it or brings
\* one back; and a Start for a class whose pool exists and is empty opens
\* the grades summary, commits no winner, opens no slot window and leaves
\* the pool empty instead of taking the roster again.
C21_PoolNeverGrows ==
    [][rev = "latest" =>
          /\ \A k \in DOMAIN session_students_by_class :
                /\ k \in DOMAIN session_students_by_class'
                /\ Len(session_students_by_class'[k]) <= Len(session_students_by_class[k])
                /\ Range(session_students_by_class'[k]) \subseteq
                      Range(session_students_by_class[k])
          /\ ( /\ ~InvalidClass(selected_class)
               /\ selected_class \in DOMAIN session_students_by_class
               /\ session_students_by_class[selected_class] = <<>>
               /\ _start_session("first") ) =>
                /\ last_callback' = SUMMARY
                /\ summaries' = summaries + 1
                /\ rounds' = rounds
                /\ session_students' = <<>>
                /\ UNCHANGED session_students_by_class]_vars

\* the only student of a class has won and been rated, and with the
\* feedback popup still open (so that no Next Student has run) a Start for
\* the class has opened the summary: the pool is still empty and the grade
\* is still in the book
C21_Witness ==
    /\ rev = "latest" /\ last_callback = SUMMARY
    /\ popups # <<>> /\ summaries = 1
    /\ active_class \in DOMAIN classes
    /\ session_students_by_class[active_class] = <<>>
    /\ student_grades_by_class[active_class] # <<>>

\* C22: the round duration _get_duration_seconds returns is a whole number
\* of seconds and at least one second, whatever the timer variables hold:
\* a fraction, zero, a negative number or a text that is no number; with a
\* text that is no number in a variable it is 30 s in the latest revision
\* and 0 min 10 s in the earlier ones; and it is the duration of the round
\* a Start opens.
C22_DurationAtLeastOne ==
    LET d == _get_duration_seconds(time_seconds)
        unreadable == \E k \in DOMAIN time_seconds : time_seconds[k] = NotANumber
    IN /\ d >= UnitsPerSecond
       /\ d % UnitsPerSecond = 0
       /\ unreadable => d = (IF rev = "latest" THEN 30 ELSE 10) * UnitsPerSecond
       /\ \A i \in DOMAIN rounds :
             rounds[i].win_exists => rounds[i].duration = d

\* a round has been started in an earlier revision with -1.5 in the minutes
\* and 2.5 in the seconds (-1 min 2 s): it lasts one second
C22_Witness ==
    /\ rev # "latest"
    /\ time_seconds = << <<0 - 15>>, <<25>> >>
    /\ \E i \in DOMAIN rounds :
          rounds[i].win_exists /\ rounds[i].duration = UnitsPerSecond

-----------------------------------------------------------------------------
(* Audio *)

\* what the mixer plays
Playback(snd) == <<snd.music, snd.loop, snd.channel>>

\* C23: in every state the application reaches, none of play_music_once,
\* play_music_loop, play_timeup and stop_music raises to its caller, for
\* any track; each of them leaves what the mixer plays unchanged when audio
\* is disabled or the mixer is unavailable; and each of the three play
\* operations leaves it unchanged when the file of its track is missing.
C23_SoundNoOps ==
    \A path \in AllTracks \cup {NoPath} :
        LET plays == play_music_once(sound, path) \cup play_music_loop(sound, path)
                        \cup play_timeup(sound, path)
            all == plays \cup stop_music(sound)
        IN /\ \A o \in all : ~o.raised
           /\ ((~sound.enabled) \/ ~sound.mixer_ok) =>
                 \A o \in all : Playback(o.snd) = Playback(sound)
           /\ (~_file_exists(sound, path)) =>
                 \A o \in plays : Playback(o.snd) = Playback(sound)

\* C24: while audio is disabled nothing plays, neither on the music stream
\* nor on a channel: set_enabled(False) has stopped what was playing and no
\* play operation starts anything before set_enabled(True).
C24_DisabledIsSilent ==
    (~sound.enabled) => (sound.music = None /\ ~sound.channel)

\* C25: the handlers run to their end whatever the audio does (enabled or
\* disabled, mixer unavailable, files missing, calls of the mixer raising
\* inside the sound manager): a Start or Next Student that opens a slot
\* window leaves it with its first tick scheduled, its clock at zero and
\* the duration of the timer; a round that reaches DONE has its winner out
\* of the pool, its rating controls shown and no tick scheduled; a rating
\* is recorded together with
\* the closing of its window and the opening of the feedback popup; no
\* step that only changes the audio changes anything else; and without a
\* mixer what is played never changes.
C25_AudioApart ==
    [][/\ Len(rounds') > Len(rounds) =>
             LET r == rounds'[Len(rounds')]
             IN /\ r.pending /\ r.win_exists /\ r.elapsed = 0
                /\ r.duration = _get_duration_seconds(time_seconds)
       /\ \A i \in DOMAIN rounds :
             ReachesDone(i) =>
                /\ rounds'[i].grading /\ ~rounds'[i].pending
                /\ rounds[i].final_student \notin Range(session_students')
                /\ <<rounds[i].class_name, rounds[i].final_student>> \in done'
       /\ (\E i \in DOMAIN rounds : apply_rating(i, "A")) =>
             /\ Len(popups') = Len(popups) + 1
             /\ \A i \in DOMAIN rounds' : ~rounds'[i].grading
       /\ (_on_sound_toggle \/ MusicEnds \/ SoundEnds
              \/ \E i \in DOMAIN rounds : _timeup_safe(i)) =>
             UNCHANGED <<AppVars, PoolVars, GradeVars, active_class, exit_requested,
                         popups, summaries, done>>
       /\ (~sound.mixer_ok) => Playback(sound') = Playback(sound)]_vars

\* a winner has been rated and the feedback popup is open while the slot
\* loop is still playing: the mixer has raised in the stop_music of
\* _finalize and in the play_music_once of apply_rating
C25_Witness ==
    /\ popups # <<>> /\ student_grades # <<>>
    /\ sound.faulty /\ sound.enabled
    /\ sound.music # None /\ sound.loop

-----------------------------------------------------------------------------
(* The settle and the rotation events *)

\* C26: in the latest revision, the tick that enters the final mode sets
\* the next slot (its identity and the text of its item) to the committed
\* winner and records the phase the reel has and the time of entry, without
\* a rotation event; from then until the round is DONE the recorded phase
\* stays, the time since entry only grows, the three slot identities stay
\* as they are, the next one being the winner, and no rotation event and
\* no filler draw occurs; and the tick that finishes the round leaves the
\* previous and the next slot as they are.
C26_SettleFrozen ==
    [][Len(rounds') = Len(rounds) =>
          \A i \in DOMAIN rounds :
              LET a == rounds[i]
                  b == rounds'[i]
                  slots(r) == <<r.prev_raw, r.cur_raw, r.next_raw>>
              IN (rev = "latest" /\ a.slot_effect_enabled /\ b.win_exists) =>
                    /\ (~a.final_mode /\ b.final_mode) =>
                          /\ b.next_raw = a.final_student
                          /\ b.text[b.t_next] = _format_name(a.final_student)
                          /\ b.final_start_phase = a.phase
                          /\ b.final_elapsed = 0
                          /\ b.phase = a.phase
                          /\ <<b.prev_raw, b.cur_raw>> = <<a.prev_raw, a.cur_raw>>
                          /\ b.rotated = a.rotated
                    /\ (a.final_mode /\ b.finalized = 0) =>
                          /\ b.final_mode
                          /\ b.final_start_phase = a.final_start_phase
                          /\ b.final_elapsed >= a.final_elapsed
                          /\ slots(b) = slots(a)
                          /\ b.next_raw = a.final_student
                          /\ b.rotated = a.rotated
                          /\ <<b.t_prev, b.t_cur, b.t_next>> = <<a.t_prev, a.t_cur, a.t_next>>
                    /\ (a.final_mode /\ a.finalized = 0 /\ b.finalized > 0) =>
                          /\ <<b.prev_raw, b.next_raw>> = <<a.prev_raw, a.final_student>>
                          /\ b.rotated = a.rotated]_vars

\* a reel of the latest revision is settling, half way to the row line,
\* with the winner in the next slot and another student in the centre
C26_Witness ==
    \E i \in DOMAIN rounds :
        LET r == rounds[i] IN
        /\ rev = "latest" /\ r.slot_effect_enabled
        /\ r.win_exists /\ Mode(r) = "SETTLING"
        /\ r.next_raw = r.final_student /\ r.cur_raw # r.final_student
        /\ r.phase > r.final_start_phase /\ r.phase < RowH

\* the fields of a slot window that are neither its slot identities, nor
\* the texts of its items, nor the position of its reel
Beside(r) ==
    <<r.class_name, r.final_student, r.pool, r.duration, r.slot_effect_enabled,
      r.alive, r.win_exists, r.t_prev, r.t_cur, r.t_next, r.hidden, r.status,
      r.remaining_label, r.final_mode, r.final_start_phase, r.elapsed,
      r.final_elapsed, r.pending, r.timeup, r.finalized, r.grading>>

\* C27: a rotation event of a round moves the current slot to the previous
\* one and the next slot to the current one, puts a name drawn from the
\* pool snapshot of the round (any of its names, the winner included) into
\* the next one and sets the texts of the three items accordingly; it
\* changes nothing else of its round; and the tick that performs rotation
\* events changes no other round, no final_student, no pool, no grade book
\* and not the exit flag.
C27_RotationShiftsSlots ==
    [][\A i \in DOMAIN rounds :
          SpinTick(i) =>
             LET a == rounds[i]
                 b == rounds'[i]
             IN /\ \A f \in Range(a.pool) :
                      LET q == _rotate_once(a, f)
                      IN /\ <<q.prev_raw, q.cur_raw, q.next_raw>> =
                               <<a.cur_raw, a.next_raw, f>>
                         /\ q.text[a.t_prev] = _format_name(a.cur_raw)
                         /\ q.text[a.t_cur] = _format_name(a.next_raw)
                         /\ q.text[a.t_next] = _format_name(f)
                         /\ Beside(q) = Beside(a)
                         /\ <<q.phase, q.y, q.dt>> = <<a.phase, a.y, a.dt>>
                /\ \E n \in 0..(MaxAdv \div RowH + 1) : Rotated(a, b, n)
                /\ b.next_raw # a.next_raw => b.next_raw \in Range(a.pool)
                /\ Beside(b) = Beside(a)
                /\ \A k \in DOMAIN rounds : k # i => rounds'[k] = rounds[k]
                /\ UNCHANGED <<AppVars, PoolVars, GradeVars, active_class,
                               exit_requested, popups, summaries, sound, done>>]_vars

\* a spinning reel has rotated the winner of its round into the centre
\* slot as a filler, after another student
C27_Witness ==
    \E i \in DOMAIN rounds :
        LET r == rounds[i] IN
        /\ r.win_exists /\ r.slot_effect_enabled /\ Mode(r) = "SPINNING"
        /\ r.rotated
        /\ r.cur_raw = r.final_student /\ r.prev_raw # r.final_student
        /\ r.final_student \in Range(session_students)

-----------------------------------------------------------------------------
(* The session of the earlier revisions, and the end of a session *)

\* C28: in selection_r3 and selection_r5 there is one pool and one grade
\* book, and a Start for a valid class resumes nothing: whatever the pool
\* and the grade book hold, for this class or another, it leaves the pool
\* as the full roster of the class chosen and the grade book empty, and the
\* round it opens commits a student of that roster and takes the roster for
\* its fillers; no per-class pool or grade book is kept.
C28_EarlyStartResets ==
    [][(rev # "latest" /\ ~InvalidClass(selected_class) /\ _start_session("first")) =>
          /\ session_students' = classes[selected_class]
          /\ student_grades' = <<>>
          /\ Len(rounds') = Len(rounds) + 1
          /\ LET r == rounds'[Len(rounds')]
             IN /\ r.class_name = selected_class
                /\ r.final_student \in Range(classes[selected_class])
                /\ r.remaining_label = Len(classes[selected_class])
                /\ rev = "r5" => r.pool = classes[selected_class]
          /\ session_students_by_class' = <<>> /\ student_grades_by_class' = <<>>
          /\ active_class' = None]_vars

\* in an earlier revision the class of an open feedback popup, whose rating
\* had been recorded, has been started again: the grade book is empty, the
\* pool is the roster again and a new round is open
C28_Witness ==
    /\ rev # "latest"
    /\ \E j \in DOMAIN popups : popups[j].class_name = selected_class
    /\ student_grades = <<>>
    /\ selected_class \in DOMAIN classes
    /\ session_students = classes[selected_class]
    /\ \E i \in DOMAIN rounds : rounds[i].win_exists /\ rounds[i].finalized = 0

\* a session is under way; the summary that Next Student opened
C29_Started == rounds # <<>> \/ popups # <<>>

C29_AtSummary ==
    /\ last_callback = SUMMARY /\ summaries > 0
    /\ rounds = <<>> /\ popups = <<>>
    /\ selected_class \in DOMAIN classes
    /\ Cardinality(done) = Len(classes[selected_class])
    /\ session_students = <<>>
    /\ Cardinality(DOMAIN student_grades) = Len(classes[selected_class])

\* C29: in a session that runs on from a pool of k students (every round
\* finishes, every winner is rated, Next Student is clicked each time, no
\* exit), each round that reaches DONE adds one student to those that have
\* won, Next Student opens another round as long as fewer than k have won
\* and the summary once k have; and the summary is reached, with k rounds
\* completed, the pool empty and k grades in the book.
C29_SessionTerminates ==
    /\ [][/\ done' # done =>
               /\ Cardinality(done') = Cardinality(done) + 1
               /\ Cardinality(done') <= Len(classes[selected_class])
          /\ \A j \in DOMAIN popups :
               next_student(j, "any") =>
                  IF Cardinality(done) = Len(classes[selected_class])
                  THEN summaries' = summaries + 1 /\ rounds' = rounds
                  ELSE /\ summaries' = summaries
                       /\ Len(rounds') = Len(rounds) + 1
                       /\ Mode(rounds'[Len(rounds')]) = "SPINNING"]_vars
    /\ C29_Started ~> C29_AtSummary

\* the summary of a session of two students, reached by Next Student after
\* the second round
C29_Witness ==
    /\ C29_AtSummary
    /\ Cardinality(done) = 2

\* window i is open and its round is not DONE; it is open and DONE
C30_Running(i) ==
    /\ i \in DOMAIN rounds
    /\ rounds[i].win_exists /\ Mode(rounds[i]) # "DONE"

C30_Done(i) ==
    /\ i \in DOMAIN rounds
    /\ rounds[i].win_exists /\ Mode(rounds[i]) = "DONE"

\* C30: a round whose window stays open, whose ticks are delivered and for
\* which the wall clock advances reaches DONE: the spinning reel of
\* studentselector and of selection_r5 enters the final roll and settles,
\* the reduced mode finishes when the duration has passed (and so does the
\* tick of selection_r3 while no other window empties the pool).
C30_RoundReachesDone ==
    \A i \in 1..MaxRounds : C30_Running(i) ~> C30_Done(i)

\* a reel of studentselector that ran with the slot effect, entered the
\* final roll and is DONE
C30_Witness ==
    /\ rev = "latest"
    /\ \E i \in DOMAIN rounds :
          /\ rounds[i].win_exists /\ rounds[i].slot_effect_enabled
          /\ rounds[i].final_mode /\ Mode(rounds[i]) = "DONE"
          /\ rounds[i].duration > 0

-----------------------------------------------------------------------------
(* Rounds, pools and grade books when windows are open side by side *)

\* the slot windows that are open: their rounds are SPINNING, SETTLING or
\* wait for a rating
InProgress == {i \in DOMAIN rounds : rounds[i].win_exists}

\* C31: at most one round is in progress at any time: while a slot window
\* is open (spinning, settling or showing the rating buttons) there is no
\* second open slot window, so no Start and no Next Student has committed
\* a second winner beside it.
C31_OneRoundInProgress == Cardinality(InProgress) <= 1

\* C32: in studentselector, which keeps a grade book for each class, every
\* student with an entry in the grade book of class c is in the roster of
\* c and has won a round that was started for c and reached DONE, also
\* when another class is started while a window of c is open.
C32_GradedWonForClass ==
    rev = "latest" =>
       \A c \in DOMAIN student_grades_by_class :
          \A x \in DOMAIN student_grades_by_class[c] :
             /\ c \in DOMAIN classes
             /\ x \in Range(classes[c])
             /\ <<c, x>> \in done

\* C33: no student is at the same time in the pool of a class and a key of
\* the grade book of that class (in selection_r3 and selection_r5, which
\* keep one pool and one grade book: in the pool and in the grade book).
C33_PoolAndBookApart ==
    /\ Range(session_students) \cap DOMAIN student_grades = {}
    /\ \A c \in DOMAIN session_students_by_class \cap DOMAIN student_grades_by_class :
          Range(session_students_by_class[c]) \cap DOMAIN student_grades_by_class[c] = {}

\* the students of the roster of class c that are neither in the pool ss
\* nor a key of the grade book gb
Unaccounted(c, ss, gb) == Range(classes[c]) \ (Range(ss) \cup DOMAIN gb)

\* C34: whenever no slot window and no feedback popup is open, every
\* student of the roster of a started class is still in the pool of the
\* class or has an entry in its grade book (in selection_r3 and
\* selection_r5: of the class whose rounds have completed since the Start,
\* in the one pool and the one grade book).
C34_NoneLostUngraded ==
    AllClosed =>
       IF rev = "latest"
       THEN \A c \in DOMAIN session_students_by_class :
               Unaccounted(c, session_students_by_class[c],
                           student_grades_by_class[c]) = {}
       ELSE \A d \in done :
               Unaccounted(d[1], session_students, student_grades) = {}

\* s is t with some elements left out, the others in the same order
RECURSIVE IsSubsequence(_, _)
IsSubsequence(s, t) ==
    IF s = <<>> THEN TRUE
    ELSE IF t = <<>> THEN FALSE
    ELSE IF Head(s) = Head(t) THEN IsSubsequence(Tail(s), Tail(t))
    ELSE IsSubsequence(s, Tail(t))

NoTwice(s) == Cardinality(Range(s)) = Len(s)

\* C35: with the rosters as the loader returns them (no name twice in a
\* class), the pool of every class is at all times a duplicate-free
\* subsequence of the roster of the class: students are only removed and
\* the others keep their order (in selection_r3 and selection_r5 the one
\* pool is such a subsequence of the roster of a class); and no step of the
\* application changes a roster.
C35_PoolSubsequenceOfRoster ==
    /\ [](/\ \A c \in DOMAIN classes : NoTwice(classes[c])
          /\ NoTwice(session_students)
          /\ \E c \in DOMAIN classes : IsSubsequence(session_students, classes[c])
          /\ \A c \in DOMAIN session_students_by_class :
                /\ c \in DOMAIN classes
                /\ NoTwice(session_students_by_class[c])
                /\ IsSubsequence(session_students_by_class[c], classes[c])
          /\ (rev = "latest" /\ active_class # None) =>
                session_students = session_students_by_class[active_class])
    /\ [][classes' = classes]_vars

\* the file named Ann twice: the roster of A is Ann, Bob, and after Ann
\* has won and been rated the pool is Bob alone
C35_Witness ==
    /\ classes = ("A" :> <<Ann, Bob>>)
    /\ session_students = <<Bob>>
    /\ Ann \in DOMAIN student_grades
    /\ rev = "latest" => session_students_by_class["A"] = <<Bob>>

-----------------------------------------------------------------------------
(* The time-up cue and the slot loop *)

\* the windows whose time-up callback is scheduled and has not run
TimeupPending == {i \in DOMAIN rounds : rounds[i].timeup}

\* C36: the time-up cue of a round is played by the round's time-up
\* callback and by nothing else; the callback plays it only while the
\* window exists (and, from selection_r5 on, its liveness flag is set), not
\* before the duration less 200 ms has passed since the round started, and
\* it is then no longer scheduled, so it plays at most once; a callback is
\* scheduled only when a slot window is built, one for the window: in
\* selection_r3 and selection_r5 if the duration is 10 s or more, in
\* studentselector for every duration.
C36_TimeupOnceAndDue ==
    [][/\ \A i \in DOMAIN rounds :
            (_timeup_safe(i) /\ sound' # sound) =>
               /\ rounds[i].win_exists
               /\ rev # "r3" => rounds[i].alive
               /\ rounds[i].elapsed + timeup_lead >= rounds[i].duration
               /\ rev # "latest" => rounds[i].duration >= 10 * UnitsPerSecond
               /\ ~rounds'[i].timeup
       /\ (sound'.channel /\ ~sound.channel) =>
             \E i \in DOMAIN rounds : _timeup_safe(i)
       /\ Cardinality(TimeupPending') > Cardinality(TimeupPending) =>
             /\ Cardinality(TimeupPending') = Cardinality(TimeupPending) + 1
             /\ Len(rounds') = Len(rounds) + 1
       /\ Len(rounds') > Len(rounds) =>
             LET r == rounds'[Len(rounds')]
             IN r.timeup = (rev = "latest" \/ r.duration >= 10 * UnitsPerSecond)]_vars

\* in studentselector the cue has been played in the open slot window of a
\* round of one second
C36_Witness ==
    /\ rev = "latest" /\ sound.channel
    /\ \E i \in DOMAIN rounds :
          /\ rounds[i].win_exists /\ ~rounds[i].timeup
          /\ rounds[i].duration < 10 * UnitsPerSecond
          /\ rounds[i].elapsed + timeup_lead >= rounds[i].duration

\* the slot loop is what the music stream plays
SlotLoopPlaying ==
    /\ sound.loop
    /\ sound.music \in {SLOT_SOUND_SHORT, SLOT_SOUND_MEDIUM, SLOT_SOUND_LONG}

\* a slot window is open and its round is SPINNING or SETTLING
RoundRunning ==
    \E i \in DOMAIN rounds :
       rounds[i].win_exists /\ Mode(rounds[i]) \in {"SPINNING", "SETTLING"}

\* C37: whenever no round is SPINNING or SETTLING the slot loop is not
\* playing on the music stream.
C37_NoLoopWithoutRound == (~RoundRunning) => ~SlotLoopPlaying

=============================================================================
